---- MODULE Spec2Model ----
(***************************************************************************)
(* Verification model of the dictionary lookup service:                    *)
(*   - LazyLocalDictManager (providers/lazy-local-dicts.ts): deferred load, *)
(*     single-flight lock, idle-release timer;                              *)
(*   - ProviderRegistry (providers/base.ts) restricted to managed names;    *)
(*   - the non-English branch of the lookup route that drives the manager;  *)
(*   - the cache service (core/cache.ts) over a Redis-like backend.         *)
(*                                                                         *)
(* Scheduling follows Node's event loop.  A request's chain                *)
(* ensureProviderForLanguage -> queryProvider -> touch only awaits already  *)
(* settled promises, so its steps are microtasks: they interleave with the *)
(* microtasks of other requests delivered in the same turn, but no timer   *)
(* callback and no signal handler runs before the microtask queue is       *)
(* empty.  Time is kept relative: idleFor[n] is Date.now() - lastUsedAt,    *)
(* saturated at IdleReleaseMs (the code only compares it with that value), *)
(* and releaseTimer[n] is the delay left on the armed timeout.             *)
(***************************************************************************)
EXTENDS Integers, Sequences, FiniteSets, TLC

\* ------------------------------------------------------------------ bounds
NumCalls == 2          \* request slots that can be in flight together
MaxLoads == 2          \* constructions per managed provider name
IdleReleaseMs == 2     \* configured idle duration, in clock ticks
TimerSkew == 1         \* ticks a timeout may run ahead of Date.now()
NumOps == 2            \* cache operations that can be in flight together
MaxTime == 2           \* last tick of the cache clock
TicksPerSecond == 2    \* clock ticks in one second of backend TTL
SecondsPerDay == 1     \* length of a TTL day, in seconds
DefaultTTLDays == 1    \* redisConfig.defaultTTLDays
FallbackTTLDays == 30  \* the default where the configuration sets none
MaxHits == 2           \* read hits counted per entry
MaxRequests == 2       \* lookup requests the route handler receives
NumProviders == 4      \* provider objects handed to a registry
MaxRegistrations == 3  \* register calls made on a registry

\* --------------------------------------------------------------- constants
\* one deferred dictionary is enabled; "fr" is a language no local dictionary serves
Names == {"jaen_mac"}
Languages == {"ja", "fr"}
Calls == 1..NumCalls
NoName == "none"
NoLock == "none"
NoTimer == -1
FiredTimer == -2
Outcomes == {"ok", "unavailable", "throws"}

VARIABLES
    closed,        \* manager closed and process exiting
    loaded,        \* RuntimeState.loaded per name
    idleFor,       \* Date.now() - RuntimeState.lastUsedAt, saturated
    releaseTimer,  \* RuntimeState.releaseTimer: NoTimer, FiredTimer or delay left
    timers,        \* history: timeouts of a provider pending in the event loop
    loadLocks,     \* loadLocks: NoLock or the settled value of the promise
    providers,     \* registry.providers for managed names: 0 or instance number
    dbOpen,        \* instances of a name whose database handle is open
    loadCount,     \* "[LAZY-DICT] loading provider" events per name
    failCount,     \* loads that did not register a provider
    unloadCount,   \* registry.unregister calls made by the manager
    req,           \* request slots
    now,           \* Date.now() and the cache backend's clock, in ticks
    store,         \* cache backend: key -> stored string, Absent if no key
    expireAt,      \* cache backend: key -> tick at which the key expires
    lastWritten,   \* history: payload of the latest setCached write per key
    origExpire,    \* history: expiry fixed by the latest setCached write
    op,            \* cache operations in flight
    route,         \* lookup requests in the route handler
    started,       \* lookup requests received so far
    cfg,           \* configuration and dictionary contents, fixed at startup
    registry,      \* a ProviderRegistry used on its own: its fields and last call
    google         \* a GoogleProvider used on its own: its fields and its query

lazyVars == <<closed, loaded, idleFor, releaseTimer, timers, loadLocks, providers,
              dbOpen, loadCount, failCount, unloadCount, req>>

cacheVars == <<now, store, expireAt, lastWritten, origExpire, op>>

routeVars == <<route, started, cfg, registry, google>>

vars == <<closed, loaded, idleFor, releaseTimer, timers, loadLocks, providers,
          dbOpen, loadCount, failCount, unloadCount, req,
          now, store, expireAt, lastWritten, origExpire, op, route, started, cfg, registry, google>>

\* a request slot: name holds the language while the request is "ready" and
\* the resolved provider name (or NoName) afterwards; queried tells whether
\* queryProvider went as far as calling the provider's query method
IdleReq == [pc |-> "idle", name |-> NoName, ok |-> FALSE, hit |-> FALSE,
            answer |-> "none", queried |-> FALSE]

\* languageMap.get(language) || null
GetProviderNameByLanguage(language) ==
    IF language = "ja" THEN "jaen_mac" ELSE NoName

\* registry.get(name)?.isAvailable()
RegistryAvailable(n) == providers[n] # 0 /\ providers[n] \in dbOpen[n]

CanReuseNever(n) == FALSE
\* ensureProvider: state.loaded && registry.get(name)?.isAvailable()
CanReuse(n) == loaded[n] /\ RegistryAvailable(n)

\* no request has a continuation waiting in the microtask queue
Quiescent == \A c \in Calls : req[c].pc \in {"idle", "done"}

LazyInit ==
    /\ closed = FALSE
    /\ loaded = [n \in Names |-> FALSE]
    /\ idleFor = [n \in Names |-> IdleReleaseMs]
    /\ releaseTimer = [n \in Names |-> NoTimer]
    /\ timers = [n \in Names |-> 0]
    /\ loadLocks = [n \in Names |-> NoLock]
    /\ providers = [n \in Names |-> 0]
    /\ dbOpen = [n \in Names |-> {}]
    /\ loadCount = [n \in Names |-> 0]
    /\ failCount = [n \in Names |-> 0]
    /\ unloadCount = [n \in Names |-> 0]
    /\ req = [c \in Calls |-> IdleReq]

TouchStale(n) == idleFor
\* touch: state.lastUsedAt = Date.now()
TouchLastUsed(n) == IF loaded[n] THEN [idleFor EXCEPT ![n] = 0] ELSE idleFor

TouchTimerKept(n) == releaseTimer
\* scheduleRelease as called from touch: clear the old timeout, arm a new one
TouchTimer(n) ==
    IF loaded[n] THEN [releaseTimer EXCEPT ![n] = IdleReleaseMs] ELSE releaseTimer

\* clearTimeout(state.releaseTimer) takes a pending timeout off the event
\* loop; on a timeout that has fired, or on null, it does nothing
ClearTimeout(n) == IF releaseTimer[n] >= 0 THEN timers[n] - 1 ELSE timers[n]

SetWithoutClear(n) == [timers EXCEPT ![n] = @ + 1]
\* scheduleRelease: clearTimeout on the old handle, then setTimeout
ClearAndSet(n) == [timers EXCEPT ![n] = ClearTimeout(n) + 1]

\* touch(name)
Touch(n) ==
    /\ idleFor' = TouchLastUsed(n)
    /\ releaseTimer' = TouchTimer(n)
    /\ timers' = IF loaded[n] THEN ClearAndSet(n) ELSE timers

RegisterNothing(n, k) == providers
\* registry.register(provider, priority): providers.set(name, provider)
RegistryRegister(n, k) == [providers EXCEPT ![n] = k]

\* registry.unregister(name): provider.close(); providers.delete(name)
RegistryUnregisterMap(n) == [providers EXCEPT ![n] = 0]

RegistryUnregisterOpen(n) ==
    IF providers[n] = 0 THEN dbOpen
    ELSE [dbOpen EXCEPT ![n] = @ \ {providers[n]}]

\* loadProvider(name): runs to completion without suspending
LoadProvider(n, outcome) ==
    /\ loadCount' = [loadCount EXCEPT ![n] = @ + 1]
    /\ IF outcome = "ok"
       THEN /\ providers' = RegistryRegister(n, loadCount[n] + 1)
            /\ dbOpen' = [dbOpen EXCEPT ![n] = @ \cup {loadCount[n] + 1}]
            /\ loaded' = [loaded EXCEPT ![n] = TRUE]
            /\ idleFor' = [idleFor EXCEPT ![n] = 0]
            /\ releaseTimer' = [releaseTimer EXCEPT ![n] = IdleReleaseMs]
            /\ timers' = ClearAndSet(n)
            /\ UNCHANGED failCount
       ELSE /\ loaded' = [loaded EXCEPT ![n] = FALSE]
            /\ failCount' = [failCount EXCEPT ![n] = @ + 1]
            /\ UNCHANGED <<providers, dbOpen, idleFor, releaseTimer, timers>>

\* a turn of the event loop hands the continuations of a batch of requests
\* (cache miss, non-English branch) to the microtask queue
Deliver(S, langs) ==
    /\ UNCHANGED <<cacheVars, routeVars>>
    /\ ~closed
    /\ Quiescent
    /\ S # {}
    /\ \A c \in S : req[c].pc = "idle"
    /\ req' = [c \in Calls |->
                 IF c \in S THEN [IdleReq EXCEPT !.pc = "ready", !.name = langs[c]]
                 ELSE req[c]]
    /\ UNCHANGED <<closed, loaded, idleFor, releaseTimer, timers, loadLocks, providers,
                   dbOpen, loadCount, failCount, unloadCount>>

\* ensureProviderForLanguage + ensureProvider up to the first await
EnsureStart(c, outcome) ==
    /\ UNCHANGED <<cacheVars, routeVars>>
    /\ ~closed
    /\ req[c].pc = "ready"
    /\ LET n == GetProviderNameByLanguage(req[c].name) IN
       IF n = NoName
       THEN /\ req' = [req EXCEPT ![c].pc = "ensured", ![c].name = NoName]
            /\ UNCHANGED <<loaded, idleFor, releaseTimer, timers, loadLocks, providers,
                           dbOpen, loadCount, failCount>>
       ELSE IF CanReuse(n)
       THEN /\ Touch(n)
            /\ req' = [req EXCEPT ![c].pc = "awaitReuse", ![c].name = n,
                                  ![c].ok = TRUE]
            /\ UNCHANGED <<loaded, loadLocks, providers, dbOpen, loadCount,
                           failCount>>
       ELSE IF loadLocks[n] # NoLock
       THEN /\ req' = [req EXCEPT ![c].pc = "awaitLock", ![c].name = n,
                                  ![c].ok = (loadLocks[n] = "ok")]
            /\ UNCHANGED <<loaded, idleFor, releaseTimer, timers, loadLocks, providers,
                           dbOpen, loadCount, failCount>>
       ELSE /\ loadCount[n] < MaxLoads
            /\ LoadProvider(n, outcome)
            /\ loadLocks' = [loadLocks EXCEPT ![n] =
                               IF outcome = "ok" THEN "ok" ELSE "fail"]
            /\ req' = [req EXCEPT ![c].pc = "awaitLoad", ![c].name = n,
                                  ![c].ok = (outcome = "ok")]
    /\ UNCHANGED <<closed, unloadCount>>

LockKept(n) == loadLocks
\* ensureProvider: finally { this.loadLocks.delete(name) }
LockDeleted(n) == [loadLocks EXCEPT ![n] = NoLock]

\* ensureProvider resumes after "await loadingTask"
EnsureResume(c) ==
    /\ UNCHANGED <<cacheVars, routeVars>>
    /\ ~closed
    /\ req[c].pc = "awaitLoad"
    /\ loadLocks' = LockDeleted(req[c].name)
    /\ req' = [req EXCEPT ![c].pc = "ensured"]
    /\ UNCHANGED <<closed, loaded, idleFor, releaseTimer, timers, providers, dbOpen,
                   loadCount, failCount, unloadCount>>

\* a caller that returned the existing lock, or took the reuse path, resumes
AwaitResume(c) ==
    /\ UNCHANGED <<cacheVars, routeVars>>
    /\ ~closed
    /\ req[c].pc \in {"awaitLock", "awaitReuse"}
    /\ req' = [req EXCEPT ![c].pc = "ensured"]
    /\ UNCHANGED <<closed, loaded, idleFor, releaseTimer, timers, loadLocks, providers,
                   dbOpen, loadCount, failCount, unloadCount>>

\* route, non-English branch: queryProvider(providerName) and touch on a hit
Query(c, hit) ==
    /\ UNCHANGED <<cacheVars, routeVars>>
    /\ ~closed
    /\ req[c].pc = "ensured"
    /\ IF req[c].ok /\ RegistryAvailable(req[c].name) /\ hit
       THEN /\ Touch(req[c].name)
            /\ req' = [req EXCEPT ![c].pc = "done", ![c].hit = hit,
                                  ![c].answer = req[c].name,
                                  ![c].queried = TRUE]
       ELSE /\ req' = [req EXCEPT ![c].pc = "done", ![c].hit = hit,
                                  ![c].answer = "fallback",
                                  ![c].queried =
                                      req[c].ok /\ RegistryAvailable(req[c].name)]
            /\ UNCHANGED <<idleFor, releaseTimer, timers>>
    /\ UNCHANGED <<closed, loaded, loadLocks, providers, dbOpen, loadCount,
                   failCount, unloadCount>>

\* the response has been sent; the slot serves a later request
Finish(c) ==
    /\ UNCHANGED <<cacheVars, routeVars>>
    /\ ~closed
    /\ req[c].pc = "done"
    /\ req' = [req EXCEPT ![c] = IdleReq]
    /\ UNCHANGED <<closed, loaded, idleFor, releaseTimer, timers, loadLocks, providers,
                   dbOpen, loadCount, failCount, unloadCount>>

StillIdleNever(n) == FALSE
StillIdleAlways(n) == TRUE
\* timer callback: idleForMs < this.idleReleaseMs
BelowThreshold(n) == idleFor[n] < IdleReleaseMs

KeepRegistered(n) == providers
\* timer callback: registry.unregister(name)
EvictUnregister(n) == RegistryUnregisterMap(n)

\* the timeout armed by scheduleRelease fires
TimerFire(n) ==
    /\ UNCHANGED <<cacheVars, routeVars>>
    /\ ~closed
    /\ Quiescent
    /\ releaseTimer[n] >= 0
    /\ releaseTimer[n] <= TimerSkew
    /\ IF ~loaded[n]
       THEN /\ releaseTimer' = [releaseTimer EXCEPT ![n] = FiredTimer]
            /\ timers' = [timers EXCEPT ![n] = @ - 1]
            /\ UNCHANGED <<loaded, providers, dbOpen, unloadCount>>
       ELSE IF BelowThreshold(n)
       THEN /\ releaseTimer' = [releaseTimer EXCEPT ![n] = IdleReleaseMs]
            /\ timers' = [timers EXCEPT ![n] = @ - 1 + 1]
            /\ UNCHANGED <<loaded, providers, dbOpen, unloadCount>>
       ELSE /\ providers' = EvictUnregister(n)
            /\ dbOpen' = RegistryUnregisterOpen(n)
            /\ loaded' = [loaded EXCEPT ![n] = FALSE]
            /\ releaseTimer' = [releaseTimer EXCEPT ![n] = NoTimer]
            /\ timers' = [timers EXCEPT ![n] = @ - 1]
            /\ unloadCount' = [unloadCount EXCEPT ![n] = @ + 1]
    /\ UNCHANGED <<closed, idleFor, loadLocks, loadCount, failCount, req>>

\* one clock tick: Date.now() advances, armed timeouts come closer
LazyTick ==
    /\ UNCHANGED <<cacheVars, routeVars>>
    /\ ~closed
    /\ idleFor' = [n \in Names |->
                     IF idleFor[n] < IdleReleaseMs THEN idleFor[n] + 1
                     ELSE idleFor[n]]
    /\ releaseTimer' = [n \in Names |->
                          IF releaseTimer[n] > 0 THEN releaseTimer[n] - 1
                          ELSE releaseTimer[n]]
    /\ UNCHANGED <<closed, loaded, timers, loadLocks, providers, dbOpen, loadCount,
                   failCount, unloadCount, req>>

\* a close() that clears the maps but leaves the timeouts armed
CloseLeavesTimers ==
    /\ UNCHANGED <<cacheVars, routeVars>>
    /\ ~closed
    /\ Quiescent
    /\ closed' = TRUE
    /\ providers' = [n \in Names |-> IF loaded[n] THEN 0 ELSE providers[n]]
    /\ dbOpen' = [n \in Names |->
                    IF loaded[n] THEN dbOpen[n] \ {providers[n]} ELSE dbOpen[n]]
    /\ unloadCount' = [n \in Names |->
                         IF loaded[n] THEN unloadCount[n] + 1 ELSE unloadCount[n]]
    /\ loaded' = [n \in Names |-> FALSE]
    /\ loadLocks' = [n \in Names |-> NoLock]
    /\ UNCHANGED <<releaseTimer, timers, idleFor, loadCount, failCount, req>>

\* lazyLocalDictManager.close(): on SIGINT/SIGTERM, after which the process
\* exits, and as the first statement of configure().  While closed is true
\* the states, languageMap and loadLocks maps are empty.
Close ==
    /\ UNCHANGED <<cacheVars, routeVars>>
    /\ ~closed
    /\ Quiescent
    /\ closed' = TRUE
    /\ releaseTimer' = [n \in Names |-> NoTimer]
    /\ timers' = [n \in Names |-> ClearTimeout(n)]
    /\ providers' = [n \in Names |-> IF loaded[n] THEN 0 ELSE providers[n]]
    /\ dbOpen' = [n \in Names |->
                    IF loaded[n] THEN dbOpen[n] \ {providers[n]} ELSE dbOpen[n]]
    /\ unloadCount' = [n \in Names |->
                         IF loaded[n] THEN unloadCount[n] + 1 ELSE unloadCount[n]]
    /\ loaded' = [n \in Names |-> FALSE]
    /\ loadLocks' = [n \in Names |-> NoLock]
    /\ UNCHANGED <<idleFor, loadCount, failCount, req>>

\* configure(descriptors, idleReleaseMs) after its this.close(): every
\* descriptor gets a state { loaded: false, lastUsedAt: 0, releaseTimer: null }
\* and its languages are mapped to its name
Configure ==
    /\ UNCHANGED <<cacheVars, routeVars>>
    /\ closed
    /\ closed' = FALSE
    /\ loaded' = [n \in Names |-> FALSE]
    /\ idleFor' = [n \in Names |-> IdleReleaseMs]
    /\ releaseTimer' = [n \in Names |-> NoTimer]
    /\ UNCHANGED <<timers, loadLocks, providers, dbOpen, loadCount, failCount,
                   unloadCount, req>>

\* ======================================================= cache service
\* Time in the cache model is absolute.  The backend keeps expiries at a finer
\* grain (a tick) than the whole seconds SETEX takes and TTL reports.
CacheWords == {"hello", "Hello"}
CacheLanguages == {"en"}
Ops == 1..NumOps
Absent == <<>>
NoData == "none"

KeepCase(word) == word
\* word.toLowerCase()
ToLowerCase(word) == IF word = "Hello" THEN "hello" ELSE word

\* makeCacheKey: `dict:${language}:${word.toLowerCase()}`
MakeCacheKey(word, language) == <<"dict", language, ToLowerCase(word)>>

\* languages of lookup requests: English, one served by a deferred dictionary
RouteLanguages == {"en", "ja"}

\* a language that no provider lists in supportedLanguages
OtherLanguage == "zh"

Keys ==
    {MakeCacheKey(w, l) :
        w \in CacheWords, l \in CacheLanguages \cup RouteLanguages \cup {OtherLanguage}}

\* DictionaryResponse, reduced to the fields the lookup path looks at:
\* defs is definitions ("" when the list is empty); translations stands for the
\* fields only the primary local dictionary fills (translations, exchange,
\* frequency, phonetics)
EmptyResponse ==
    [word |-> "", defs |-> NoData, translations |-> "", source |-> "unknown",
     cached |-> FALSE]

\* what a provider hands to setCached: a fallback result or a primary-local one
Payloads ==
    {[word |-> "hello", defs |-> d, translations |-> "", source |-> "google",
      cached |-> FALSE] : d \in {"d1", "d2"}}
    \cup {[word |-> "hello", defs |-> "d1", translations |-> "", source |-> "ecdict",
            cached |-> FALSE]}

NoEntry == [data |-> EmptyResponse, hit_count |-> 0, created_at |-> 0, last_hit_at |-> 0]

\* JSON.stringify(entry): the stored string, field by field
Stringify(entry) ==
    <<entry.data.word, entry.data.defs, entry.data.translations, entry.data.source,
      entry.data.cached, entry.hit_count, entry.created_at, entry.last_hit_at>>

\* JSON.parse(raw)
Parse(raw) ==
    [data |-> [word |-> raw[1], defs |-> raw[2], translations |-> raw[3],
               source |-> raw[4], cached |-> raw[5]],
     hit_count |-> raw[6], created_at |-> raw[7], last_hit_at |-> raw[8]]

\* value of the control key 'tl_config:cache_ttl_days' as the backend returns it
CtlValues ==
    {[kind |-> "absent", n |-> 0], [kind |-> "text", n |-> 0]}
        \cup {[kind |-> "int", n |-> v] : v \in 0..DefaultTTLDays}

\* further values the control key can hold: a negative number, a number above
\* the default, and digits followed by other text ("2 days")
OtherCtlValues ==
    {[kind |-> "int", n |-> 0 - 1], [kind |-> "int", n |-> DefaultTTLDays + 1],
     [kind |-> "prefixed", n |-> DefaultTTLDays + 1], [kind |-> "prefixed", n |-> 0]}

\* parseInt(ttlStr, 10) reads the leading digits; without any it is NaN
IsNaN(ctl) == ctl.kind \notin {"int", "prefixed"}

\* redisConfig.defaultTTLDays where the configuration sets it
NoDefault == 0
ConfiguredTTLDays ==
    IF "defaultTTLDays" \in DOMAIN cfg THEN cfg.defaultTTLDays ELSE DefaultTTLDays

\* redisConfig.defaultTTLDays || 30
DefaultOr30 ==
    IF ConfiguredTTLDays = NoDefault THEN FallbackTTLDays ELSE ConfiguredTTLDays

\* getRedis() is null ("none") or the client reports its connection status;
\* the status a call finds is the environment's choice
RedisStatuses == {"none", "ready", "reconnecting"}

\* redis && redis.status === 'ready'
RedisReady(status) == status = "ready"

\* getCacheTTLDays: the control key if it parses to an integer > 0, else the default
IgnoreControlKey(status, ctl, readFails) ==
    IF status = "none" THEN FallbackTTLDays ELSE DefaultOr30

GetCacheTTLDays(status, ctl, readFails) ==
    IF status = "none" THEN FallbackTTLDays
    ELSE IF ~RedisReady(status) THEN DefaultOr30
    ELSE IF ~readFails /\ ctl.kind # "absent" /\ ~IsNaN(ctl) /\ ctl.n > 0 THEN ctl.n
    ELSE DefaultOr30

\* setCached: ttlSeconds = ttlDays * 24 * 60 * 60, a model day being SecondsPerDay long
TtlSeconds(ttlDays) == ttlDays * SecondsPerDay

\* backend reply to TTL key: -2 without the key, else the time left rounded to
\* the nearest second
TtlReply(k) ==
    IF store[k] = Absent THEN -2
    ELSE (expireAt[k] - now + (TicksPerSecond \div 2)) \div TicksPerSecond

\* a cache operation: its key, the entry it works on, the TTL it read or
\* computed, what it returned, and what went wrong with the backend during it:
\* "status" (no client or not ready), "call" (a command failed into the
\* operation's catch)
IdleOp == [pc |-> "idle", key |-> MakeCacheKey("hello", "en"), entry |-> NoEntry,
           ttl |-> 0, ret |-> "none", fault |-> "none"]

OpKey(c) == op[c].key

CacheInit ==
    /\ now = 0
    /\ store = [k \in Keys |-> Absent]
    /\ expireAt = [k \in Keys |-> 0]
    /\ lastWritten = [k \in Keys |-> NoData]
    /\ origExpire = [k \in Keys |-> 0]
    /\ op = [c \in Ops |-> IdleOp]


\* getCached up to "await redis.get(key)"
GetStart(c, word, language, status) ==
    /\ UNCHANGED lazyVars
    /\ op[c].pc = "idle"
    /\ IF RedisReady(status)
       THEN op' = [op EXCEPT ![c] = [IdleOp EXCEPT !.pc = "g_get",
                                        !.key = MakeCacheKey(word, language)]]
       ELSE op' = [op EXCEPT ![c] = [IdleOp EXCEPT !.pc = "done",
                                        !.key = MakeCacheKey(word, language),
                                        !.ret = "null", !.fault = "status"]]
    /\ UNCHANGED <<now, store, expireAt, lastWritten, origExpire>>

StampNothing(data) == data
\* the route stamps a cache hit: response.cached = true; response.source = 'cache'
StampHit(data) == [data EXCEPT !.cached = TRUE, !.source = "cache"]

\* getCached returns { data: entry.data, stats }, and the route stamps it
ReturnHit(c, entry) ==
    [op EXCEPT ![c].pc = "done", ![c].ret = "hit", ![c].entry = entry, ![c].ttl = 0]

\* the response the route sends for a getCached that returned a hit
Response(c) == StampHit(op[c].entry.data)

\* getCached returns null on a miss
ReturnNull(c) ==
    [op EXCEPT ![c] = [IdleOp EXCEPT !.pc = "done", !.key = op[c].key, !.ret = "null"]]

\* the error leaves the cache function instead of being caught
ReturnRaised(c) ==
    [op EXCEPT ![c] = [IdleOp EXCEPT !.pc = "done", !.key = op[c].key,
                                     !.ret = "raise", !.fault = "call"]]
\* getCached: catch (err) { ...; return null }
ReturnCaught(c) ==
    [op EXCEPT ![c] = [IdleOp EXCEPT !.pc = "done", !.key = op[c].key,
                                     !.ret = "null", !.fault = "call"]]

BumpNothing(entry) == entry
\* getCached: entry.hit_count += 1; entry.last_hit_at = Date.now()
BumpHit(entry) == [entry EXCEPT !.hit_count = @ + 1, !.last_hit_at = now]

\* redis.get(key) answers; on a hit the entry's statistics are bumped
GetReply(c, fails) ==
    /\ UNCHANGED <<lazyVars, routeVars>>
    /\ op[c].pc = "g_get"
    /\ IF fails THEN op' = ReturnCaught(c)
       ELSE IF store[OpKey(c)] = Absent THEN op' = ReturnNull(c)
       ELSE /\ Parse(store[OpKey(c)]).hit_count < MaxHits
            /\ op' = [op EXCEPT ![c].pc = "g_ttl",
                                ![c].entry = BumpHit(Parse(store[OpKey(c)]))]
    /\ UNCHANGED <<now, store, expireAt, lastWritten, origExpire>>

\* redis.ttl(key) answers: rewrite only if ttl > 0
TtlReplied(c, fails) ==
    /\ UNCHANGED <<lazyVars, routeVars>>
    /\ op[c].pc = "g_ttl"
    /\ IF fails THEN op' = ReturnCaught(c)
       ELSE IF TtlReply(OpKey(c)) > 0
       THEN op' = [op EXCEPT ![c].pc = "g_setex", ![c].ttl = TtlReply(OpKey(c))]
       ELSE op' = ReturnHit(c, op[c].entry)
    /\ UNCHANGED <<now, store, expireAt, lastWritten, origExpire>>

\* redis.setex(key, seconds, value) as the backend executes it
Setex(k, seconds, value) ==
    /\ store' = [store EXCEPT ![k] = value]
    /\ expireAt' = [expireAt EXCEPT ![k] = now + seconds * TicksPerSecond]

\* getCached's redis.setex(key, ttl, JSON.stringify(entry)) completes
GetRewrite(c, fails) ==
    /\ UNCHANGED <<lazyVars, routeVars>>
    /\ op[c].pc = "g_setex"
    /\ IF fails
       THEN /\ op' = ReturnCaught(c)
            /\ UNCHANGED <<store, expireAt>>
       ELSE /\ Setex(OpKey(c), op[c].ttl, Stringify(op[c].entry))
            /\ op' = ReturnHit(c, op[c].entry)
    /\ UNCHANGED <<now, lastWritten, origExpire>>

SkipNothing(source) == FALSE
SkipEverything(source) == TRUE
\* setCached: if (source === 'ecdict') return false
SkipSource(source) == source = "ecdict"

\* setCached up to "await getCacheTTLDays()"
SetStart(c, word, language, data, status) ==
    /\ UNCHANGED lazyVars
    /\ op[c].pc = "idle"
    /\ IF SkipSource(data.source) \/ ~RedisReady(status)
       THEN op' = [op EXCEPT ![c] = [IdleOp EXCEPT !.pc = "done",
                                        !.key = MakeCacheKey(word, language),
                                        !.entry = [NoEntry EXCEPT !.data = data],
                                        !.ret = "false",
                                        !.fault = IF SkipSource(data.source)
                                                  THEN "none" ELSE "status"]]
       ELSE op' = [op EXCEPT ![c] = [IdleOp EXCEPT !.pc = "s_ttl",
                                        !.key = MakeCacheKey(word, language),
                                        !.entry = [NoEntry EXCEPT !.data = data]]]
    /\ UNCHANGED <<now, store, expireAt, lastWritten, origExpire>>

\* getCacheTTLDays() answers; the fresh entry is built
\* (getCacheTTLDays runs up to its own await in the same synchronous stretch
\* as setCached's status check, so the status it reads is 'ready')
SetTtlResolved(c, ctl, readFails) ==
    /\ UNCHANGED <<lazyVars, routeVars>>
    /\ op[c].pc = "s_ttl"
    /\ op' = [op EXCEPT ![c].pc = "s_setex",
                        ![c].ttl = TtlSeconds(GetCacheTTLDays("ready", ctl, readFails)),
                        ![c].entry = [data |-> op[c].entry.data, hit_count |-> 0,
                                      created_at |-> now, last_hit_at |-> now]]
    /\ UNCHANGED <<now, store, expireAt, lastWritten, origExpire>>

\* setCached's redis.setex(key, ttlSeconds, JSON.stringify(entry)) completes
SetWrite(c, fails) ==
    /\ UNCHANGED <<lazyVars, routeVars>>
    /\ op[c].pc = "s_setex"
    /\ IF fails
       THEN /\ op' = [op EXCEPT ![c] = [IdleOp EXCEPT !.pc = "done",
                                           !.key = op[c].key, !.ret = "false",
                                           !.fault = "call"]]
            /\ UNCHANGED <<store, expireAt, lastWritten, origExpire>>
       ELSE /\ Setex(OpKey(c), op[c].ttl, Stringify(op[c].entry))
            /\ lastWritten' = [lastWritten EXCEPT ![OpKey(c)] =
                                  op[c].entry.data.defs]
            /\ origExpire' = [origExpire EXCEPT ![OpKey(c)] =
                                 now + op[c].ttl * TicksPerSecond]
            /\ op' = [op EXCEPT ![c] = [IdleOp EXCEPT !.pc = "done",
                                           !.key = op[c].key, !.ret = "true"]]
    /\ UNCHANGED now

\* deleteCached up to "await redis.del(key)"
DelStart(c, word, language, status) ==
    /\ UNCHANGED <<lazyVars, routeVars>>
    /\ op[c].pc = "idle"
    /\ route[c].pc = "idle"
    /\ IF RedisReady(status)
       THEN op' = [op EXCEPT ![c] = [IdleOp EXCEPT !.pc = "d_del",
                                        !.key = MakeCacheKey(word, language)]]
       ELSE op' = [op EXCEPT ![c] = [IdleOp EXCEPT !.pc = "done",
                                        !.key = MakeCacheKey(word, language),
                                        !.ret = "false", !.fault = "status"]]
    /\ UNCHANGED <<now, store, expireAt, lastWritten, origExpire>>

\* redis.del(key) completes, or fails into deleteCached's catch
DelReply(c, fails) ==
    /\ UNCHANGED <<lazyVars, routeVars>>
    /\ op[c].pc = "d_del"
    /\ IF fails
       THEN /\ op' = [op EXCEPT ![c] = [IdleOp EXCEPT !.pc = "done",
                                           !.key = op[c].key, !.ret = "false",
                                           !.fault = "call"]]
            /\ UNCHANGED <<store, lastWritten>>
       ELSE /\ op' = [op EXCEPT ![c] = [IdleOp EXCEPT !.pc = "done",
                                           !.key = op[c].key, !.ret = "true"]]
            /\ store' = [store EXCEPT ![OpKey(c)] = Absent]
            /\ lastWritten' = [lastWritten EXCEPT ![OpKey(c)] = NoData]
    /\ UNCHANGED <<now, expireAt, origExpire>>

\* the caller has its answer; the slot serves a later call
OpDone(c) ==
    /\ UNCHANGED <<lazyVars, routeVars>>
    /\ op[c].pc = "done"
    /\ op' = [op EXCEPT ![c] = IdleOp]
    /\ UNCHANGED <<now, store, expireAt, lastWritten, origExpire>>

\* one tick passes; the backend drops the keys that expire
CacheTick ==
    /\ UNCHANGED <<lazyVars, routeVars>>
    /\ now < MaxTime
    /\ now' = now + 1
    /\ store' = [k \in Keys |->
                   IF store[k] # Absent /\ expireAt[k] <= now + 1 THEN Absent
                   ELSE store[k]]
    /\ UNCHANGED <<expireAt, lastWritten, origExpire, op>>

\* ======================================================== lookup route
\* The route handler of GET /:version/entries/:language/:word.  Each await of
\* the handler is a point where other requests may run.  The dictionaries'
\* contents and the configuration do not change while the server runs.
RouteWord == "hello"

\* queryProvider's result: null, or { provider, response }
NoHit == [found |-> FALSE, response |-> EmptyResponse]
Found(response) == [found |-> TRUE, response |-> response]

\* createEmptyResponse(word)
CreateEmptyResponse(word) == [EmptyResponse EXCEPT !.word = word, !.defs = ""]

\* a local SQLite dictionary as opened at startup: whether its database is
\* open, whether it has a row for the word, and the row's columns
NoRow ==
    [available |-> TRUE, found |-> FALSE, definition |-> "", translation |-> "",
     throws |-> FALSE]
Unavailable == [NoRow EXCEPT !.available = FALSE]
Row(definition, translation) ==
    [available |-> TRUE, found |-> TRUE, definition |-> definition,
     translation |-> translation, throws |-> FALSE]

\* a database whose this.db.query(word) raises
Broken == [Row("b1", "t1") EXCEPT !.throws = TRUE]

\* startup configurations: the disable flag, ECDICT and oxford_en_mac
Configs ==
    {[disableLocalDicts |-> FALSE, ecdict |-> e, oxford |-> o] :
        e \in {NoRow, Row("e1", "t1"), Row("", "t1")},
        o \in {NoRow, Row("o1", ""), Row(" ", "")}}
    \cup {[disableLocalDicts |-> FALSE, ecdict |-> Unavailable, oxford |-> Row("o1", "")],
          [disableLocalDicts |-> FALSE, ecdict |-> Row("e1", "t1"), oxford |-> Unavailable],
          [disableLocalDicts |-> FALSE, ecdict |-> Row("", ""), oxford |-> Row("", "")],
          [disableLocalDicts |-> TRUE, ecdict |-> Row("e1", "t1"), oxford |-> Row("o1", "")]}

\* configurations in which a local database raises on query
FaultConfigs ==
    {[disableLocalDicts |-> FALSE, ecdict |-> Broken, oxford |-> Row("o1", "")],
     [disableLocalDicts |-> FALSE, ecdict |-> Broken, oxford |-> NoRow],
     [disableLocalDicts |-> FALSE, ecdict |-> Row("e1", "t1"), oxford |-> Broken],
     [disableLocalDicts |-> FALSE, ecdict |-> NoRow, oxford |-> Broken],
     [disableLocalDicts |-> FALSE, ecdict |-> Broken, oxford |-> Broken]}

DefaultConfig ==
    [disableLocalDicts |-> FALSE, ecdict |-> Row("e1", "t1"), oxford |-> NoRow]

NeverDisabled == FALSE
\* isLocalDictDisabled()
IsLocalDictDisabled == cfg.disableLocalDicts

\* ECDictProvider.transformRecord
EcdictTransformRecord(row) ==
    [CreateEmptyResponse(RouteWord) EXCEPT
        !.translations = row.translation, !.defs = row.definition,
        !.source = "ecdict", !.cached = FALSE]

\* String.prototype.trim on the definitions the model uses
Trim(text) == IF text = " " THEN "" ELSE text

\* SqliteDictProvider.cleanText: whitespace collapsed and trimmed
CleanText(text) == Trim(text)

\* SqliteDictProvider.query: transformRecord (a definition that cleans to
\* nothing gives an empty list), then source = this.name
SqliteTransformRecord(name, row) ==
    [CreateEmptyResponse(RouteWord) EXCEPT
        !.defs = CleanText(row.definition), !.source = name, !.cached = FALSE]

\* GoogleProvider.transformGoogleResponse
GoogleUntagged(defs) == [CreateEmptyResponse(RouteWord) EXCEPT !.defs = defs]
GoogleTransform(defs) ==
    [CreateEmptyResponse(RouteWord) EXCEPT
        !.defs = defs, !.source = "google", !.cached = FALSE]

\* QueryResult, what provider.query(word, options) settles to: the promise
\* rejects, or resolves to { found, response, error }
Rejected ==
    [thrown |-> TRUE, found |-> FALSE, response |-> EmptyResponse, error |-> TRUE]
Missing(error) ==
    [thrown |-> FALSE, found |-> FALSE, response |-> EmptyResponse, error |-> error]
Returned(response) ==
    [thrown |-> FALSE, found |-> TRUE, response |-> response, error |-> FALSE]

\* result.response is null
NullResponse == EmptyResponse

\* what the remote fallback may answer for a query: nothing (404 or a network
\* error, reported in result.error), an entry with definitions, an entry
\* without meanings
GoogleResults ==
    {Missing(TRUE), Returned(GoogleTransform("d1")), Returned(GoogleTransform(""))}

\* results a provider of the DictionaryProvider interface may give beyond those
AnyResults ==
    GoogleResults \cup {Rejected, Missing(FALSE), Returned(NullResponse)}

\* provider.isValidResult(response)
IsValidResult(name, response) ==
    IF name = "ecdict" THEN response.translations # "" \/ response.defs # ""
    ELSE IF name = "google" THEN response.defs # ""
    ELSE response.defs # "" /\ Trim(response.defs) # ""

AlwaysAvailable(name) == TRUE
\* registry.get(name) exists and provider.isAvailable()
ProviderAvailable(name) ==
    IF name = "ecdict" THEN cfg.ecdict.available
    ELSE IF name = "oxford_en_mac" THEN cfg.oxford.available
    ELSE TRUE

\* provider.supportedLanguages
SupportedLanguages(name) ==
    IF name \in {"ecdict", "oxford_en_mac"} THEN {"en"} ELSE {"en", "ja"}

\* provider.query(word) of the two startup dictionaries
LocalQuery(name) ==
    LET row == IF name = "ecdict" THEN cfg.ecdict ELSE cfg.oxford IN
    IF ~row.available THEN Missing(TRUE)
    ELSE IF row.throws THEN Rejected
    ELSE IF ~row.found THEN Missing(FALSE)
    ELSE IF name = "ecdict" THEN Returned(EcdictTransformRecord(row))
    ELSE Returned(SqliteTransformRecord(name, row))

\* res.status(500).json({ title: 'Internal Error', message, resolution })
ErrorBody ==
    [title |-> "Internal Error", word |-> "", defs |-> NoData,
     translations |-> "", source |-> "unknown", cached |-> FALSE]

\* an exception leaving queryProvider, on its way to the handler's catch
Escaped == [found |-> FALSE, response |-> ErrorBody]

Uncaught(result) == Escaped
\* queryProvider: catch (err) { ...; return null }
Caught(result) == NoHit

\* queryProvider gets as far as calling provider.query(word, { language })
Dispatches(name, language) ==
    /\ ProviderAvailable(name)
    /\ language \in SupportedLanguages(name)

\* queryProvider(name, word, language), given what provider.query settles to
QueryProvider(name, language, result) ==
    IF ~ProviderAvailable(name) THEN NoHit
    ELSE IF language \notin SupportedLanguages(name) THEN NoHit
    ELSE IF result.thrown THEN Caught(result)
    ELSE IF ~result.found \/ result.response = NullResponse THEN NoHit
    ELSE IF ~IsValidResult(name, result.response) THEN NoHit
    ELSE Found(result.response)

MergeNever(response, oxfordHit) == response
MergeAlways(response, oxfordHit) ==
    [response EXCEPT !.defs = oxfordHit.response.defs, !.source = "ecdict+oxford"]
\* en branch: if (oxfordHit?.response?.definitions?.length) override definitions
Merge(response, oxfordHit) ==
    IF oxfordHit.found /\ oxfordHit.response.defs # ""
    THEN [response EXCEPT !.defs = oxfordHit.response.defs,
                          !.source = "ecdict+oxford"]
    ELSE response

\* a request in the handler: where it is, the language asked for, the
\* hit_count stored under its key when it arrived (-1 if none), the hits
\* queryProvider returned, the providers consulted, whether the lazy manager
\* was called and resolved a provider that has the word, whether setCached was
\* called, the hit_count getCached reported, the response sent, the providers
\* whose query method was invoked, and those whose query rejected or reported
\* an error
IdleRoute ==
    [pc |-> "idle", language |-> "en", seen |-> -1, ecdictHit |-> NoHit,
     oxfordHit |-> NoHit, consulted |-> {}, ensured |-> FALSE, resolved |-> FALSE,
     hasEntry |-> FALSE, wrote |-> FALSE, hits |-> 0, status |-> 0,
     body |-> EmptyResponse, queried |-> {}, failed |-> {}]

RouteKey(c) == MakeCacheKey(RouteWord, route[c].language)

RouteIdle == route = [c \in Calls |-> IdleRoute] /\ started = 0

\* res.status(404).json({ title, message, resolution }): the body has none of
\* the response fields, which read as their empty defaults
NotFoundBody ==
    [title |-> "No Definitions Found", word |-> "", defs |-> NoData,
     translations |-> "", source |-> "unknown", cached |-> FALSE]

\* a handler that falls off its end without sending anything
SendNothing(c, status, body) == route

\* res.json(response) / res.status(404).json(...)
Send(c, status, body) ==
    [route EXCEPT ![c].pc = "sent", ![c].status = status, ![c].body = body]

\* a queryProvider(name, ...) call is made and awaited
Consult(c, name) ==
    [route EXCEPT ![c].pc = name, ![c].consulted = @ \cup {name}]

\* the handler's catch: res.status(500).json(...)
SendError(c) == Send(c, 500, ErrorBody)

\* what the awaited queryProvider(name, ...) did with the provider
Asked(r, c, name, result) ==
    IF ~Dispatches(name, route[c].language) THEN r
    ELSE [r EXCEPT ![c].queried = @ \cup {name},
                   ![c].failed = IF result.thrown \/ result.error
                                 THEN @ \cup {name} ELSE @]

\* the request arrives and the handler calls getCached(word, language)
RouteStart(c, language, status) ==
    /\ ~closed
    /\ route[c].pc = "idle"
    /\ req[c].pc = "idle"
    /\ started < MaxRequests
    /\ GetStart(c, RouteWord, language, status)
    /\ started' = started + 1
    /\ route' = [route EXCEPT ![c] =
                    [IdleRoute EXCEPT
                        !.pc = "cache", !.language = language,
                        !.seen = LET k == MakeCacheKey(RouteWord, language) IN
                                 IF store[k] = Absent THEN -1
                                 ELSE Parse(store[k]).hit_count]]
    /\ UNCHANGED <<cfg, registry, google>>

\* getCached has returned: a hit is stamped and sent; on a miss the handler
\* picks its branch and makes the branch's first call
RouteCacheReturn(c) ==
    /\ ~closed
    /\ route[c].pc = "cache"
    /\ op[c].pc = "done"
    /\ op' = [op EXCEPT ![c] = IdleOp]
    /\ IF op[c].ret = "raise"
       THEN /\ route' = SendError(c)
            /\ UNCHANGED req
       ELSE IF op[c].ret = "hit"
       THEN /\ route' = [Send(c, 200, Response(c)) EXCEPT
                            ![c].hits = op[c].entry.hit_count]
            /\ UNCHANGED req
       ELSE IF IsLocalDictDisabled
       THEN /\ route' = Consult(c, "google")
            /\ UNCHANGED req
       ELSE IF route[c].language = "en"
       THEN /\ route' = Consult(c, "ecdict")
            /\ UNCHANGED req
       ELSE /\ route' = [route EXCEPT ![c].pc = "lazy", ![c].ensured = TRUE]
            /\ req' = [req EXCEPT ![c] =
                          [IdleReq EXCEPT !.pc = "ready",
                                          !.name = route[c].language]]
    /\ UNCHANGED <<closed, loaded, idleFor, releaseTimer, timers, loadLocks, providers,
                   dbOpen, loadCount, failCount, unloadCount>>
    /\ UNCHANGED <<now, store, expireAt, lastWritten, origExpire, started, cfg, registry, google>>

\* en branch: queryProvider('ecdict') has returned; queryProvider('oxford_en_mac')
\* is called
RouteEcdictReply(c) ==
    /\ ~closed
    /\ route[c].pc = "ecdict"
    /\ LET result == LocalQuery("ecdict")
           ecdictHit == QueryProvider("ecdict", route[c].language, result)
       IN  IF ecdictHit = Escaped
           THEN route' = Asked(SendError(c), c, "ecdict", result)
           ELSE route' = Asked([Consult(c, "oxford_en_mac") EXCEPT
                                   ![c].ecdictHit = ecdictHit],
                               c, "ecdict", result)
    /\ UNCHANGED <<lazyVars, cacheVars, started, cfg, registry, google>>

\* en branch: which hit answers, if any
EnDecisionFallback(ecdictHit, oxfordHit) == "fallback"
EnDecision(ecdictHit, oxfordHit) ==
    IF ecdictHit.found THEN "primary"
    ELSE IF oxfordHit.found THEN "supplementary"
    ELSE "fallback"

\* en branch: queryProvider('oxford_en_mac') has returned
RouteOxfordReply(c) ==
    /\ ~closed
    /\ route[c].pc = "oxford_en_mac"
    /\ LET ecdictHit == route[c].ecdictHit
           result == LocalQuery("oxford_en_mac")
           oxfordHit == QueryProvider("oxford_en_mac", route[c].language, result)
           branch == EnDecision(ecdictHit, oxfordHit)
       IN  IF oxfordHit = Escaped
           THEN route' = Asked(SendError(c), c, "oxford_en_mac", result)
           ELSE IF branch = "primary"
           THEN route' = Asked([Send(c, 200, Merge(ecdictHit.response, oxfordHit))
                                   EXCEPT ![c].oxfordHit = oxfordHit],
                               c, "oxford_en_mac", result)
           ELSE IF branch = "supplementary"
           THEN route' = Asked([Send(c, 200, oxfordHit.response)
                                   EXCEPT ![c].oxfordHit = oxfordHit],
                               c, "oxford_en_mac", result)
           ELSE route' = Asked([Consult(c, "google") EXCEPT ![c].oxfordHit = oxfordHit],
                               c, "oxford_en_mac", result)
    /\ UNCHANGED <<lazyVars, cacheVars, started, cfg, registry, google>>

\* the response a deferred dictionary gives for a word it has
ManagedResponse(name) == SqliteTransformRecord(name, Row("j1", ""))

\* non-en branch: ensureProviderForLanguage and queryProvider have returned
RouteLocalReturn(c) ==
    /\ ~closed
    /\ route[c].pc = "lazy"
    /\ req[c].pc = "done"
    /\ req' = [req EXCEPT ![c] = IdleReq]
    /\ IF req[c].answer # "fallback"
       THEN route' = [Send(c, 200, ManagedResponse(req[c].answer))
                         EXCEPT ![c].resolved = req[c].ok, ![c].hasEntry = req[c].hit,
                                ![c].queried = @ \cup {req[c].name}]
       ELSE route' = [Consult(c, "google")
                         EXCEPT ![c].resolved = req[c].ok, ![c].hasEntry = req[c].hit,
                                ![c].queried = IF req[c].queried
                                               THEN @ \cup {req[c].name} ELSE @]
    /\ UNCHANGED <<closed, loaded, idleFor, releaseTimer, timers, loadLocks, providers,
                   dbOpen, loadCount, failCount, unloadCount>>
    /\ UNCHANGED <<cacheVars, started, cfg, registry, google>>

\* queryProvider('google') has returned: on a hit setCached is called
RouteGoogleReply(c, result, status) ==
    /\ ~closed
    /\ route[c].pc = "google"
    /\ LET googleHit == QueryProvider("google", route[c].language, result) IN
       IF googleHit = Escaped
       THEN /\ route' = Asked(SendError(c), c, "google", result)
            /\ UNCHANGED <<lazyVars, cacheVars>>
       ELSE IF googleHit.found
       THEN /\ SetStart(c, RouteWord, route[c].language, googleHit.response, status)
            /\ route' = Asked([route EXCEPT ![c].pc = "set", ![c].wrote = TRUE,
                                            ![c].body = googleHit.response],
                              c, "google", result)
       ELSE /\ route' = Asked(Send(c, 404, NotFoundBody), c, "google", result)
            /\ UNCHANGED <<lazyVars, cacheVars>>
    /\ UNCHANGED <<started, cfg, registry, google>>

\* setCached has returned; the fallback's response is sent
RouteSetReturn(c) ==
    /\ ~closed
    /\ route[c].pc = "set"
    /\ op[c].pc = "done"
    /\ op' = [op EXCEPT ![c] = IdleOp]
    /\ route' = Send(c, 200, route[c].body)
    /\ UNCHANGED <<lazyVars, now, store, expireAt, lastWritten, origExpire, started, cfg, registry, google>>

\* the response is out; the slot serves a later request
RouteFinish(c) ==
    /\ ~closed
    /\ route[c].pc = "sent"
    /\ route' = [route EXCEPT ![c] = IdleRoute]
    /\ UNCHANGED <<lazyVars, cacheVars, started, cfg, registry, google>>

\* ============================================================ fallback
\* GoogleProvider on its own.  A language code is the sequence of its
\* characters.
En == <<"e", "n">>
EnUS == <<"e", "n", "_", "U", "S">>
EnGB == <<"e", "n", "_", "G", "B">>
PtBR == <<"p", "t", "-", "B", "R">>
ZhHansCN == <<"z", "h", "-", "H", "-", "C">>
Blank == <<" ">>
PaddedFr == <<" ", "f", "r">>

\* options.language as callers pass it (the empty sequence: none given)
GoogleLanguages == {<<>>, En, EnUS, EnGB, PtBR, ZhHansCN, Blank, PaddedFr}

RECURSIVE TrimStart(_)
TrimStart(code) ==
    IF code # <<>> /\ Head(code) = " " THEN TrimStart(Tail(code)) ELSE code

RECURSIVE TrimEnd(_)
TrimEnd(code) ==
    IF code # <<>> /\ code[Len(code)] = " "
    THEN TrimEnd(SubSeq(code, 1, Len(code) - 1)) ELSE code

\* String(language || '').trim()
Normalized(language) == TrimEnd(TrimStart(language))

\* normalized.includes('-')
IncludesDash(code) == \E i \in 1..Len(code) : code[i] = "-"

RECURSIVE BeforeDash(_)
\* normalized.split('-')[0]
BeforeDash(code) ==
    IF code = <<>> \/ Head(code) = "-" THEN <<>>
    ELSE <<Head(code)>> \o BeforeDash(Tail(code))

RECURSIVE Distinct(_)
\* Array.from(new Set(candidates)): the first occurrence of each element
Distinct(list) ==
    IF list = <<>> THEN <<>>
    ELSE LET init == Distinct(SubSeq(list, 1, Len(list) - 1))
             last == list[Len(list)]
         IN  IF \E i \in 1..Len(init) : init[i] = last THEN init
             ELSE Append(init, last)

\* a variant that asks for the stripped code before the requested one
StrippedFirst(language) ==
    LET normalized == Normalized(language) IN
    IF normalized = <<>> THEN <<En>>
    ELSE Distinct((IF IncludesDash(normalized) THEN <<BeforeDash(normalized)>> ELSE <<>>)
                  \o <<normalized>>
                  \o (IF normalized \in {EnUS, EnGB} THEN <<En>> ELSE <<>>))

BuildLanguageCandidates(language) ==
    LET normalized == Normalized(language) IN
    IF normalized = <<>> THEN <<En>>
    ELSE Distinct(<<normalized>>
                  \o (IF IncludesDash(normalized) THEN <<BeforeDash(normalized)>> ELSE <<>>)
                  \o (IF normalized \in {EnUS, EnGB} THEN <<En>> ELSE <<>>))

\* process.env.DISABLE_GOOGLE_SEARCH and config.fallback.disable_google_search
\* (a boolean is written "true" or "false" with type "boolean")
Undefined == [type |-> "undefined", value |-> ""]
EnvValues == {Undefined} \cup {[type |-> "string", value |-> v] :
                                  v \in {"1", "TRUE", "on", "0", "false", ""}}
ConfigValues == {Undefined, [type |-> "string", value |-> "true"]}
                   \cup {[type |-> "boolean", value |-> b] : b \in {"true", "false"}}

\* envValue.toLowerCase()
LowerEnv(value) == IF value = "TRUE" THEN "true" ELSE value

\* a variant whose default leaves the scraping path enabled
DefaultsToEnabled(envValue, configValue) ==
    IF envValue # Undefined
    THEN LowerEnv(envValue.value) \in {"1", "true", "yes", "on"}
    ELSE IF configValue.type = "boolean" THEN configValue.value = "true"
    ELSE FALSE

ResolveDisableGoogleSearch(envValue, configValue) ==
    IF envValue # Undefined
    THEN LowerEnv(envValue.value) \in {"1", "true", "yes", "on"}
    ELSE IF configValue.type = "boolean" THEN configValue.value = "true"
    ELSE TRUE

\* what one fetch of dictionaryapi.dev can give: a status, a 200 whose body is
\* an array of entries, an empty array or no array, or a rejected fetch
FetchReplies == {"404", "500", "entries", "empty", "object", "throws"}

\* what legacyDictionary.findDefinitions can give
LegacyReplies == {"rows", "none", "throws"}

NoResult == [found |-> FALSE, from |-> "none", lang |-> <<>>, error |-> ""]

\* the provider as constructed: tried lists the candidates fetched so far with
\* their replies, legacy tells whether queryLegacyGoogle was called
NewGoogle(envValue, configValue) ==
    [env |-> envValue, config |-> configValue,
     disableGoogleSearch |-> ResolveDisableGoogleSearch(envValue, configValue),
     pc |-> "idle", language |-> <<>>, candidates |-> <<>>, tried |-> <<>>,
     lastError |-> "", legacy |-> FALSE, result |-> NoResult]

GoogleIdle == google = NewGoogle(Undefined, Undefined)

\* query up to the first fetch of queryDictionaryApiDev
GoogleQuery(language) ==
    /\ google.pc = "idle"
    /\ LET lang == IF language = <<>> THEN En ELSE language IN
       google' = [google EXCEPT !.pc = "fetch", !.language = lang,
                                !.candidates = BuildLanguageCandidates(lang),
                                !.tried = <<>>, !.lastError = "", !.legacy = FALSE,
                                !.result = NoResult]
    /\ UNCHANGED <<lazyVars, cacheVars, route, started, cfg, registry>>

\* the loop is over without a return: found false with the last error; query
\* goes on to the legacy path unless disableGoogleSearch
PrimaryNothing(g) ==
    IF g.disableGoogleSearch
    THEN [g EXCEPT !.pc = "done",
                   !.result = [NoResult EXCEPT !.error =
                                  IF g.lastError # "" THEN g.lastError
                                  ELSE "no definitions"]]
    ELSE [g EXCEPT !.pc = "legacy", !.legacy = TRUE]

\* one fetch settles; the loop returns, or goes on to the next candidate
FetchReply(reply) ==
    /\ google.pc = "fetch"
    /\ LET lang == google.candidates[Len(google.tried) + 1]
           g == [google EXCEPT !.tried = Append(google.tried, <<lang, reply>>),
                               !.lastError = IF reply = "500" THEN "status"
                                             ELSE IF reply = "throws" THEN "thrown"
                                             ELSE google.lastError]
       IN  google' =
              IF reply = "entries"
              THEN [g EXCEPT !.pc = "done",
                             !.result = [found |-> TRUE, from |-> "dictionaryapi.dev",
                                         lang |-> lang, error |-> ""]]
              ELSE IF Len(g.tried) < Len(g.candidates) THEN g
              ELSE PrimaryNothing(g)
    /\ UNCHANGED <<lazyVars, cacheVars, route, started, cfg, registry>>

\* queryLegacyGoogle settles
LegacyReply(reply) ==
    /\ google.pc = "legacy"
    /\ google' = [google EXCEPT !.pc = "done",
                     !.result = IF reply = "rows"
                                THEN [NoResult EXCEPT !.found = TRUE, !.from = "legacy"]
                                ELSE IF reply = "throws"
                                THEN [NoResult EXCEPT !.error = "thrown"]
                                ELSE NoResult]
    /\ UNCHANGED <<lazyVars, cacheVars, route, started, cfg, registry>>

\* the caller has the QueryResult
GoogleReturn ==
    /\ google.pc = "done"
    /\ google' = [google EXCEPT !.pc = "idle"]
    /\ UNCHANGED <<lazyVars, cacheVars, route, started, cfg, registry>>

\* ============================================================ registry
\* ProviderRegistry on its own.  Provider objects are numbered; two objects
\* may carry the same name.
Pool == 1..NumProviders
NoProvider == 0

\* provider.name
NameOf(p) == IF p % 2 = 1 THEN "ecdict" ELSE "google"
RegistryNames == {NameOf(p) : p \in Pool}

\* priorities passed to register: ECDICT's and the fallback's
Priorities == {50, 100}

\* the last call made on the registry: what it was, its argument, what it
\* returned, the providers whose close() it called
NoCall == [call |-> "none", name |-> NoName, ret |-> "none", closed |-> {}]

\* providers is the Map, priorityOrder the array (seq is the number of the
\* register call that pushed the element), available the providers whose
\* isAvailable() answers true
EmptyRegistry(available) ==
    [providers |-> [n \in RegistryNames |-> NoProvider], priorityOrder |-> <<>>,
     available |-> available, count |-> 0, last |-> NoCall]

RegistryIdle == registry = EmptyRegistry({})

RECURSIVE InsertByPriority(_, _)
\* the place a stable descending sort gives an element pushed at the end
InsertByPriority(order, e) ==
    IF order = <<>> THEN <<e>>
    ELSE IF Head(order).priority >= e.priority
    THEN <<Head(order)>> \o InsertByPriority(Tail(order), e)
    ELSE <<e>> \o order

Unsorted(order) == order
RECURSIVE SortByPriority(_)
\* priorityOrder.sort((a, b) => b.priority - a.priority): stable, descending
SortByPriority(order) ==
    IF order = <<>> THEN <<>>
    ELSE InsertByPriority(SortByPriority(SubSeq(order, 1, Len(order) - 1)),
                          order[Len(order)])

FilterNothing(order, keep) == order
\* priorityOrder.filter(p => keep has p.provider)
RECURSIVE FilterOrder(_, _)
FilterOrder(order, keep) ==
    IF order = <<>> THEN <<>>
    ELSE IF Head(order).provider \in keep
    THEN <<Head(order)>> \o FilterOrder(Tail(order), keep)
    ELSE FilterOrder(Tail(order), keep)

\* registry.get(name): undefined reads NoProvider
Get(name) == registry.providers[name]

\* registry.getAll()
GetAll == [i \in DOMAIN registry.priorityOrder |-> registry.priorityOrder[i].provider]

\* provider.isAvailable()
IsAvailable(p) == p \in registry.available

\* registry.getAvailable()
GetAvailable ==
    LET kept == FilterOrder(registry.priorityOrder, {p \in Pool : IsAvailable(p)})
    IN  [i \in DOMAIN kept |-> kept[i].provider]

\* register(provider, priority)
Register(p, priority) ==
    /\ registry.count < MaxRegistrations
    /\ registry' =
          [registry EXCEPT
              !.providers[NameOf(p)] = p,
              !.priorityOrder =
                  SortByPriority(Append(@, [provider |-> p, priority |-> priority,
                                            seq |-> registry.count + 1])),
              !.count = @ + 1,
              !.last = [call |-> "register", name |-> NameOf(p), ret |-> "none",
                        closed |-> {}]]
    /\ UNCHANGED <<lazyVars, cacheVars, route, started, cfg, google>>

\* an unregister that drops the provider without closing it
UnregisterWithoutClose(name) ==
    /\ LET provider == Get(name) IN
       IF provider = NoProvider
       THEN registry' = [registry EXCEPT
                            !.last = [call |-> "unregister", name |-> name,
                                      ret |-> "false", closed |-> {}]]
       ELSE registry' =
              [registry EXCEPT
                  !.providers[name] = NoProvider,
                  !.priorityOrder =
                      FilterOrder(@, {p \in Pool : NameOf(p) # name}),
                  !.last = [call |-> "unregister", name |-> name,
                            ret |-> "true", closed |-> {}]]
    /\ UNCHANGED <<lazyVars, cacheVars, route, started, cfg, google>>

\* unregister(name)
Unregister(name) ==
    /\ LET provider == Get(name) IN
       IF provider = NoProvider
       THEN registry' = [registry EXCEPT
                            !.last = [call |-> "unregister", name |-> name,
                                      ret |-> "false", closed |-> {}]]
       ELSE registry' =
              [registry EXCEPT
                  !.providers[name] = NoProvider,
                  !.priorityOrder =
                      FilterOrder(@, {p \in Pool : NameOf(p) # name}),
                  !.last = [call |-> "unregister", name |-> name,
                            ret |-> "true", closed |-> {provider}]]
    /\ UNCHANGED <<lazyVars, cacheVars, route, started, cfg, google>>

\* closeAll()
CloseAll ==
    /\ registry' =
          [registry EXCEPT
              !.providers = [n \in RegistryNames |-> NoProvider],
              !.priorityOrder = <<>>,
              !.last = [call |-> "closeAll", name |-> NoName, ret |-> "none",
                        closed |-> {Get(n) : n \in RegistryNames} \ {NoProvider}]]
    /\ UNCHANGED <<lazyVars, cacheVars, route, started, cfg, google>>

\* a registry is constructed empty; any of the providers may be available
RegistryInit ==
    /\ LazyInit /\ CacheInit /\ RouteIdle /\ GoogleIdle /\ cfg = DefaultConfig
    /\ registry \in {EmptyRegistry(available) : available \in SUBSET Pool}

RegistryNext ==
    \/ \E p \in Pool : \E priority \in Priorities : Register(p, priority)
    \/ \E name \in RegistryNames : Unregister(name)
    \/ CloseAll

RegistrySpec == RegistryInit /\ [][RegistryNext]_vars

\* the environment and configuration are read once, in the constructor
GoogleInit ==
    /\ LazyInit /\ CacheInit /\ RouteIdle /\ RegistryIdle /\ cfg = DefaultConfig
    /\ google \in {NewGoogle(e, v) : e \in EnvValues, v \in ConfigValues}

GoogleNext ==
    \/ \E language \in GoogleLanguages : GoogleQuery(language)
    \/ \E reply \in FetchReplies : FetchReply(reply)
    \/ \E reply \in LegacyReplies : LegacyReply(reply)
    \/ GoogleReturn

GoogleSpec == GoogleInit /\ [][GoogleNext]_vars

CacheNext ==
    \/ \E c \in Ops : \E w \in CacheWords : \E l \in CacheLanguages :
          \E status \in RedisStatuses :
             GetStart(c, w, l, status) /\ UNCHANGED routeVars
    \/ \E c \in Ops : \E fails \in BOOLEAN : GetReply(c, fails)
    \/ \E c \in Ops : \E fails \in BOOLEAN : TtlReplied(c, fails)
    \/ \E c \in Ops : \E fails \in BOOLEAN : GetRewrite(c, fails)
    \/ \E c \in Ops : \E w \in CacheWords : \E l \in CacheLanguages :
          \E d \in Payloads : \E status \in RedisStatuses :
             SetStart(c, w, l, d, status) /\ UNCHANGED routeVars
    \/ \E c \in Ops : \E ctl \in CtlValues :
          \E f \in BOOLEAN : SetTtlResolved(c, ctl, f)
    \/ \E c \in Ops : \E fails \in BOOLEAN : SetWrite(c, fails)
    \/ \E c \in Ops : OpDone(c)
    \/ CacheTick

LazyNext ==
    \/ \E S \in SUBSET Calls : \E langs \in [Calls -> Languages] : Deliver(S, langs)
    \/ \E c \in Calls : \E o \in Outcomes : EnsureStart(c, o)
    \/ \E c \in Calls : EnsureResume(c)
    \/ \E c \in Calls : AwaitResume(c)
    \/ \E c \in Calls : \E hit \in BOOLEAN : Query(c, hit)
    \/ \E c \in Calls : Finish(c)
    \/ \E n \in Names : TimerFire(n)
    \/ LazyTick
    \/ Close

Init == LazyInit /\ CacheInit /\ RouteIdle /\ RegistryIdle /\ GoogleIdle /\ cfg = DefaultConfig

\* requests run through the handler; the cache backend and the lazy manager
\* take their steps in between
RouteNext ==
    \/ \E c \in Calls : \E l \in RouteLanguages : \E status \in RedisStatuses :
          RouteStart(c, l, status)
    \/ \E c \in Calls : RouteCacheReturn(c)
    \/ \E c \in Calls : RouteEcdictReply(c)
    \/ \E c \in Calls : RouteOxfordReply(c)
    \/ \E c \in Calls : RouteLocalReturn(c)
    \/ \E c \in Calls : \E result \in GoogleResults : \E status \in RedisStatuses :
          RouteGoogleReply(c, result, status)
    \/ \E c \in Calls : RouteSetReturn(c)
    \/ \E c \in Calls : RouteFinish(c)
    \/ \E c \in Calls : \E fails \in BOOLEAN : GetReply(c, fails)
    \/ \E c \in Calls : \E fails \in BOOLEAN : TtlReplied(c, fails)
    \/ \E c \in Calls : \E fails \in BOOLEAN : GetRewrite(c, fails)
    \/ \E c \in Calls : \E ctl \in CtlValues :
          \E f \in BOOLEAN : SetTtlResolved(c, ctl, f)
    \/ \E c \in Calls : \E fails \in BOOLEAN : SetWrite(c, fails)
    \/ \E c \in Calls : \E o \in Outcomes : EnsureStart(c, o)
    \/ \E c \in Calls : EnsureResume(c)
    \/ \E c \in Calls : AwaitResume(c)
    \/ \E c \in Calls : \E hit \in BOOLEAN : Query(c, hit)
    \/ \E n \in Names : TimerFire(n)
    \/ LazyTick

\* no request is inside the handler
NoRequestRunning == \A c \in Calls : route[c].pc \in {"idle", "sent"}

\* a request arrives while no other is being handled; redis is ready
RouteStartAlone(c, language) ==
    /\ NoRequestRunning
    /\ RouteStart(c, language, "ready")

\* time passes between two requests
TickBetweenRequests ==
    /\ NoRequestRunning
    /\ CacheTick

\* requests handled one after the other over a cache backend that is ready
\* and answers every command
WorkingNext ==
    \/ \E c \in Calls : \E l \in RouteLanguages : RouteStartAlone(c, l)
    \/ \E c \in Calls : RouteCacheReturn(c)
    \/ \E c \in Calls : RouteEcdictReply(c)
    \/ \E c \in Calls : RouteOxfordReply(c)
    \/ \E c \in Calls : RouteLocalReturn(c)
    \/ \E c \in Calls : \E result \in GoogleResults :
          RouteGoogleReply(c, result, "ready")
    \/ \E c \in Calls : RouteSetReturn(c)
    \/ \E c \in Calls : RouteFinish(c)
    \/ \E c \in Calls : GetReply(c, FALSE)
    \/ \E c \in Calls : TtlReplied(c, FALSE)
    \/ \E c \in Calls : GetRewrite(c, FALSE)
    \/ \E c \in Calls : \E ctl \in CtlValues : SetTtlResolved(c, ctl, FALSE)
    \/ \E c \in Calls : SetWrite(c, FALSE)
    \/ \E c \in Calls : \E o \in Outcomes : EnsureStart(c, o)
    \/ \E c \in Calls : EnsureResume(c)
    \/ \E c \in Calls : AwaitResume(c)
    \/ \E c \in Calls : \E hit \in BOOLEAN : Query(c, hit)
    \/ \E n \in Names : TimerFire(n)
    \/ LazyTick
    \/ TickBetweenRequests

\* the server starts under any of the configurations
RouteInit == LazyInit /\ CacheInit /\ RouteIdle /\ RegistryIdle /\ GoogleIdle /\ cfg \in Configs

RouteSpec == RouteInit /\ [][RouteNext]_vars

WorkingSpec == RouteInit /\ [][WorkingNext]_vars

\* requests handled one after the other, in any language, with local
\* databases that may raise and a fallback that may reject or return any
\* QueryResult
FaultInit == LazyInit /\ CacheInit /\ RouteIdle /\ RegistryIdle /\ GoogleIdle
             /\ cfg \in Configs \cup FaultConfigs

RouteStartAny(c, language, status) ==
    /\ NoRequestRunning
    /\ RouteStart(c, language, status)

FaultNext ==
    \/ \E c \in Calls : \E l \in RouteLanguages \cup {OtherLanguage} :
          \E status \in RedisStatuses : RouteStartAny(c, l, status)
    \/ \E c \in Calls : RouteCacheReturn(c)
    \/ \E c \in Calls : RouteEcdictReply(c)
    \/ \E c \in Calls : RouteOxfordReply(c)
    \/ \E c \in Calls : RouteLocalReturn(c)
    \/ \E c \in Calls : \E result \in AnyResults : \E status \in RedisStatuses :
          RouteGoogleReply(c, result, status)
    \/ \E c \in Calls : RouteSetReturn(c)
    \/ \E c \in Calls : RouteFinish(c)
    \/ \E c \in Calls : \E fails \in BOOLEAN : GetReply(c, fails)
    \/ \E c \in Calls : \E fails \in BOOLEAN : TtlReplied(c, fails)
    \/ \E c \in Calls : \E fails \in BOOLEAN : GetRewrite(c, fails)
    \/ \E c \in Calls : \E ctl \in CtlValues :
          \E f \in BOOLEAN : SetTtlResolved(c, ctl, f)
    \/ \E c \in Calls : \E fails \in BOOLEAN : SetWrite(c, fails)
    \/ \E c \in Calls : \E o \in Outcomes : EnsureStart(c, o)
    \/ \E c \in Calls : EnsureResume(c)
    \/ \E c \in Calls : AwaitResume(c)
    \/ \E c \in Calls : \E hit \in BOOLEAN : Query(c, hit)
    \/ \E n \in Names : TimerFire(n)
    \/ LazyTick

FaultSpec == FaultInit /\ [][FaultNext]_vars

\* deleteCached has returned to its caller, outside any lookup request
DelReturn(c) ==
    /\ route[c].pc = "idle"
    /\ OpDone(c)

\* no cache call is in flight
NoCacheCall == \A c \in Ops : op[c].pc = "idle"

\* a lookup request or a deleteCached call arrives when the server is at rest
RouteStartQuiet(c, language, status) ==
    /\ NoCacheCall
    /\ RouteStartAny(c, language, status)

DelStartQuiet(c, language, status) ==
    /\ NoCacheCall
    /\ NoRequestRunning
    /\ DelStart(c, RouteWord, language, status)

\* lookup requests and deleteCached calls one after the other, over a backend
\* that may be absent, not ready, or fail any command; no idle release happens
\* meanwhile
DegradedNext ==
    \/ \E c \in Calls : \E l \in RouteLanguages : \E status \in RedisStatuses :
          RouteStartQuiet(c, l, status)
    \/ \E c \in Calls : \E l \in RouteLanguages : \E status \in RedisStatuses :
          DelStartQuiet(c, l, status)
    \/ \E c \in Calls : \E fails \in BOOLEAN : DelReply(c, fails)
    \/ \E c \in Calls : DelReturn(c)
    \/ \E c \in Calls : RouteCacheReturn(c)
    \/ \E c \in Calls : RouteEcdictReply(c)
    \/ \E c \in Calls : RouteOxfordReply(c)
    \/ \E c \in Calls : RouteLocalReturn(c)
    \/ \E c \in Calls : \E result \in GoogleResults : \E status \in RedisStatuses :
          RouteGoogleReply(c, result, status)
    \/ \E c \in Calls : RouteSetReturn(c)
    \/ \E c \in Calls : RouteFinish(c)
    \/ \E c \in Calls : \E fails \in BOOLEAN : GetReply(c, fails)
    \/ \E c \in Calls : \E fails \in BOOLEAN : TtlReplied(c, fails)
    \/ \E c \in Calls : \E fails \in BOOLEAN : GetRewrite(c, fails)
    \/ \E c \in Calls : \E ctl \in CtlValues :
          \E f \in BOOLEAN : SetTtlResolved(c, ctl, f)
    \/ \E c \in Calls : \E fails \in BOOLEAN : SetWrite(c, fails)
    \/ \E c \in Calls : \E o \in Outcomes : EnsureStart(c, o)
    \/ \E c \in Calls : EnsureResume(c)
    \/ \E c \in Calls : AwaitResume(c)
    \/ \E c \in Calls : \E hit \in BOOLEAN : Query(c, hit)

DegradedSpec == RouteInit /\ [][DegradedNext]_vars

\* the manager is closed and configured again while requests come in
ManagerNext ==
    \/ \E S \in SUBSET Calls : \E langs \in [Calls -> Languages] : Deliver(S, langs)
    \/ \E c \in Calls : \E o \in Outcomes : EnsureStart(c, o)
    \/ \E c \in Calls : EnsureResume(c)
    \/ \E c \in Calls : AwaitResume(c)
    \/ \E c \in Calls : \E hit \in BOOLEAN : Query(c, hit)
    \/ \E c \in Calls : Finish(c)
    \/ \E n \in Names : TimerFire(n)
    \/ LazyTick
    \/ Close
    \/ Configure

ManagerSpec == Init /\ [][ManagerNext]_vars

\* a getCached or setCached call is made while no other cache call is in flight
GetStartAlone(c, word, language, status) ==
    /\ NoCacheCall
    /\ GetStart(c, word, language, status)
    /\ UNCHANGED routeVars

SetStartAlone(c, word, language, data, status) ==
    /\ NoCacheCall
    /\ SetStart(c, word, language, data, status)
    /\ UNCHANGED routeVars

\* cache calls made one after the other while time passes
SequentialNext ==
    \/ \E c \in Ops : \E w \in CacheWords : \E l \in CacheLanguages :
          \E status \in RedisStatuses : GetStartAlone(c, w, l, status)
    \/ \E c \in Ops : \E fails \in BOOLEAN : GetReply(c, fails)
    \/ \E c \in Ops : \E fails \in BOOLEAN : TtlReplied(c, fails)
    \/ \E c \in Ops : \E fails \in BOOLEAN : GetRewrite(c, fails)
    \/ \E c \in Ops : \E w \in CacheWords : \E l \in CacheLanguages :
          \E d \in Payloads : \E status \in RedisStatuses :
             SetStartAlone(c, w, l, d, status)
    \/ \E c \in Ops : \E ctl \in CtlValues :
          \E f \in BOOLEAN : SetTtlResolved(c, ctl, f)
    \/ \E c \in Ops : \E fails \in BOOLEAN : SetWrite(c, fails)
    \/ \E c \in Ops : OpDone(c)
    \/ CacheTick

SequentialSpec == Init /\ [][SequentialNext]_vars

LazySpec == Init /\ [][LazyNext]_vars

CacheSpec == Init /\ [][CacheNext]_vars

\* Microtasks run to completion, the clock advances, and a due timeout is run
\* once the microtask queue is empty.
LazyLive ==
    /\ LazySpec
    /\ WF_vars(LazyTick)
    /\ \A n \in Names : SF_vars(TimerFire(n))
    /\ \A c \in Calls : WF_vars(\E o \in Outcomes : EnsureStart(c, o))
    /\ \A c \in Calls : WF_vars(EnsureResume(c))
    /\ \A c \in Calls : WF_vars(AwaitResume(c))
    /\ \A c \in Calls : WF_vars(\E hit \in BOOLEAN : Query(c, hit))

\* ---------------------------------------------------------------- helpers
InEnsure == {"awaitLoad", "awaitLock", "awaitReuse", "ensured", "done"}
Owners(n) == {c \in Calls : req[c].pc = "awaitLoad" /\ req[c].name = n}
\* request c leaves "ready" in this step, i.e. its ensureProvider call starts
Starts(c) == req[c].pc = "ready" /\ req'[c].pc # "ready"
Target(c) == GetProviderNameByLanguage(req[c].name)

\* C1: single-flight load. While a name has never been unloaded and no
\* construction of it has failed, at most one construction has happened, every
\* ensureProvider call for it that has passed its synchronous part holds the
\* result true; and at no time do two calls own an in-flight load of a name.
C1_SingleFlight ==
    \A n \in Names :
        /\ Cardinality(Owners(n)) <= 1
        /\ (failCount[n] = 0 /\ unloadCount[n] = 0) =>
              /\ loadCount[n] <= 1
              /\ \A c \in Calls :
                    (req[c].pc \in InEnsure /\ req[c].name = n) => req[c].ok

C1_Witness ==
    \E n \in Names : \E c1, c2 \in Calls :
        /\ c1 # c2
        /\ req[c1].pc = "awaitLoad" /\ req[c1].name = n /\ req[c1].ok
        /\ req[c2].pc \in InEnsure /\ req[c2].name = n /\ req[c2].ok
        /\ loadCount[n] = 1 /\ failCount[n] = 0 /\ unloadCount[n] = 0

\* the action by which a request uses provider n: its ensureProvider call or
\* its query (which touches on a hit)
Uses(n) ==
    \E c \in Calls :
        \/ (Target(c) = n /\ \E o \in Outcomes : EnsureStart(c, o))
        \/ (req[c].name = n /\ \E hit \in BOOLEAN : Query(c, hit))

Unloaded(n) == ~loaded[n] /\ providers[n] = 0 /\ dbOpen[n] = {}

\* C2: idle eviction liveness. If from some point on no request uses a managed
\* provider, it is eventually (and then for good) unregistered, closed and
\* marked unloaded.
C2_IdleEviction ==
    \A n \in Names : (<>[][~Uses(n)]_vars) => <>[]Unloaded(n)

C2_Witness ==
    \E n \in Names :
        ~closed /\ unloadCount[n] >= 1 /\ Unloaded(n) /\ releaseTimer[n] = NoTimer

\* C3: no premature eviction. A step that unloads a provider while the manager
\* stays open (the idle timer's callback) is only taken when
\* Date.now() - lastUsedAt has reached idleReleaseMs.
C3_NoPrematureEviction ==
    [][\A n \in Names :
          (loaded[n] /\ ~loaded'[n] /\ ~closed') => idleFor[n] >= IdleReleaseMs]_vars

\* the callback ran before the provider had been idle long enough and re-armed
\* the timer instead of evicting
C3_Witness ==
    \E n \in Names :
        loaded[n] /\ releaseTimer[n] = IdleReleaseMs /\ idleFor[n] > 0

\* C4: reload after release. Successful loads of a name are exactly its unloads
\* plus one if it is loaded now; the first ensureProvider call after an unload
\* constructs again, on success registers the new instance; and a request whose
\* ensureProvider succeeded and whose word the dictionary has is answered by
\* that provider.
C4_ReloadAfterRelease ==
    /\ [](\A n \in Names :
            loadCount[n] - failCount[n]
                = unloadCount[n] + (IF loaded[n] THEN 1 ELSE 0))
    /\ [][\A c \in Calls :
            (/\ Starts(c)
             /\ Target(c) \in Names
             /\ ~loaded[Target(c)]
             /\ unloadCount[Target(c)] > 0
             /\ Owners(Target(c)) = {})
            => (/\ loadCount'[Target(c)] = loadCount[Target(c)] + 1
                /\ req'[c].ok =>
                      (/\ loaded'[Target(c)]
                       /\ providers'[Target(c)] = loadCount'[Target(c)]
                       /\ providers'[Target(c)] \in dbOpen'[Target(c)]))]_vars
    /\ [][\A c \in Calls :
            (req[c].pc = "ensured" /\ req'[c].pc = "done" /\ req[c].ok
             /\ req'[c].hit)
            => req'[c].answer = req[c].name]_vars

C4_Witness ==
    \E n \in Names : \E c \in Calls :
        /\ req[c].pc = "done" /\ req[c].answer = n
        /\ unloadCount[n] >= 1 /\ loaded[n] /\ providers[n] = loadCount[n]

\* C5: reuse without reload. An ensureProvider call that starts while the
\* provider is loaded and the registered instance reports available returns
\* true, refreshes lastUsedAt and constructs nothing.
C5_ReuseWithoutReload ==
    [][\A c \in Calls :
          (/\ Starts(c)
           /\ Target(c) \in Names
           /\ loaded[Target(c)]
           /\ RegistryAvailable(Target(c)))
          => (/\ req'[c].ok
              /\ req'[c].pc = "awaitReuse"
              /\ idleFor'[Target(c)] = 0
              /\ loadCount'[Target(c)] = loadCount[Target(c)]
              /\ providers' = providers
              /\ dbOpen' = dbOpen)]_vars

C5_Witness ==
    \E c \in Calls :
        /\ req[c].pc = "awaitReuse"
        /\ loadCount[req[c].name] = 1
        /\ idleFor[req[c].name] = 0

\* C6: a failed load is retryable. While the call whose construction failed is
\* in flight the state is unloaded and nothing is registered or left open; the
\* in-flight marker is gone once no call owns a load; and the next
\* ensureProvider call after a failure constructs afresh.
C6_FailedLoadRetryable ==
    /\ [](\A c \in Calls :
            (req[c].pc = "awaitLoad" /\ ~req[c].ok) => Unloaded(req[c].name))
    /\ [](\A n \in Names : Owners(n) = {} => loadLocks[n] = NoLock)
    /\ [][\A c \in Calls :
            (/\ Starts(c)
             /\ Target(c) \in Names
             /\ ~loaded[Target(c)]
             /\ failCount[Target(c)] > 0
             /\ Owners(Target(c)) = {})
            => loadCount'[Target(c)] = loadCount[Target(c)] + 1]_vars

C6_Witness ==
    \E n \in Names : failCount[n] >= 1 /\ loaded[n] /\ providers[n] = loadCount[n]

\* C7: a managed provider is registered exactly while loaded, and nothing is
\* registered or opened before the first construction.
C7_RegisteredIffLoaded ==
    \A n \in Names :
        /\ (providers[n] # 0) <=> loaded[n]
        /\ loadCount[n] = 0 => (providers[n] = 0 /\ dbOpen[n] = {})

C7_Witness ==
    \E n \in Names :
        loaded[n] /\ providers[n] = 2 /\ unloadCount[n] = 1 /\ releaseTimer[n] >= 0

\* ------------------------------------------------------------ cache claims
\* a getCached call receives a stored entry from redis.get
ReadsHit(c) == op[c].pc = "g_get" /\ op'[c].pc = "g_ttl"

\* a setCached call starts with a payload tagged by the primary local dictionary
StartsEcdictSet(c) ==
    /\ op[c].pc = "idle"
    /\ op'[c].pc # "idle"
    /\ op'[c].entry.data.source = "ecdict"

\* C8: cache read fidelity - whenever a getCached call reads a stored entry for
\* a key, under any interleaving of getCached and setCached calls on that key,
\* the payload it will return (stamped cached = true, source = "cache") is the
\* data most recently written for that key by setCached
C8_ReadFidelity ==
    [][\A c \in Ops :
          ReadsHit(c) =>
              /\ op'[c].entry.data.defs = lastWritten[OpKey(c)]
              /\ StampHit(op'[c].entry.data).cached
              /\ StampHit(op'[c].entry.data).source = "cache"]_vars

\* C9: cache TTL preservation - no read hit moves an entry's expiry later than
\* the expiry fixed by the setCached that created the entry
C9_TtlPreserved ==
    \A k \in Keys : store[k] # Absent => expireAt[k] <= origExpire[k]

\* C10: setCached called with source 'ecdict' returns false and leaves the
\* backend unchanged (no key created, no entry modified), whatever the
\* backend's state
C10_EcdictNotCached ==
    [][\A c \in Ops :
          StartsEcdictSet(c) =>
              /\ op'[c].pc = "done"
              /\ op'[c].ret = "false"
              /\ store' = store
              /\ expireAt' = expireAt]_vars

\* a setCached call with an 'ecdict' payload has returned false while the key
\* holds an entry written earlier
C10_Witness ==
    \E c \in Ops :
        /\ op[c].pc = "done"
        /\ op[c].ret = "false"
        /\ op[c].entry.data.source = "ecdict"
        /\ store[OpKey(c)] # Absent

\* ------------------------------------------------------------ route claims
\* the request has been answered
Sent(c) == route[c].pc = "sent"

\* the request was answered after getCached returned null
MissedCache(c) == Sent(c) /\ route[c].body.source # "cache"

\* source tags of the local dictionaries
LocalTags == {"ecdict", "ecdict+oxford", "oxford_en_mac"} \cup Names

\* C11: local results are never cached - every stored entry was written from a
\* fallback result (data.source = 'google', data.cached = false); no entry
\* holds a response tagged by a local dictionary
C11_LocalNeverCached ==
    \A k \in Keys :
        store[k] # Absent =>
            /\ Parse(store[k]).data.source = "google"
            /\ Parse(store[k]).data.cached = FALSE
            /\ Parse(store[k]).data.source \notin LocalTags

\* a local dictionary has answered a request while the cache holds an entry
C11_Witness ==
    /\ \E k \in Keys : store[k] # Absent
    /\ \E c \in Calls : Sent(c) /\ route[c].body.source \in LocalTags

\* the primary local dictionary is the answering source: it hit and the
\* supplementary dictionary gave nothing to merge
PrimaryAnswers(c) ==
    /\ Sent(c)
    /\ route[c].language = "en"
    /\ route[c].ecdictHit.found
    /\ ~route[c].oxfordHit.found

\* C12: idempotence for primary-local answers - with a cold cache, requests for
\* the same (word, 'en') answered by the primary local dictionary get the
\* primary's response, identical every time, and neither request leaves a
\* cache entry for the key
C12_PrimaryIdempotent ==
    \A c \in Calls :
        (PrimaryAnswers(c) /\ route[c].seen = -1) =>
            /\ route[c].status = 200
            /\ route[c].body = route[c].ecdictHit.response
            /\ route[c].body.source = "ecdict"
            /\ ~route[c].wrote
            /\ store[RouteKey(c)] = Absent
            /\ \A d \in Calls :
                  (PrimaryAnswers(d) /\ route[d].seen = -1) =>
                      route[d].body = route[c].body

\* two requests for the word have both been answered by the primary dictionary
C12_Witness ==
    \E c, d \in Calls :
        /\ c # d
        /\ PrimaryAnswers(c) /\ route[c].seen = -1
        /\ PrimaryAnswers(d) /\ route[d].seen = -1
        /\ started = 2

\* getCached has returned a hit to the handler, which answers in this step
HitReturned(c) ==
    /\ route[c].pc = "cache"
    /\ op[c].pc = "done"
    /\ op[c].ret = "hit"
    /\ route'[c] # route[c]

\* C13: cache hit bypass - when getCached returns a hit the request responds
\* with that payload (stamped) and makes no provider query, no lazy-manager
\* load or touch, and no setCached, for every language and whatever the
\* disable flag
C13_HitBypass ==
    [][\A c \in Calls :
          HitReturned(c) =>
              /\ route'[c].pc = "sent"
              /\ route'[c].status = 200
              /\ route'[c].body =
                    [op[c].entry.data EXCEPT !.cached = TRUE, !.source = "cache"]
              /\ route'[c].consulted = {}
              /\ ~route'[c].ensured
              /\ ~route'[c].wrote
              /\ UNCHANGED <<loaded, idleFor, releaseTimer, timers, loadLocks, providers,
                             dbOpen, loadCount, req>>
              /\ UNCHANGED <<store, expireAt>>]_vars

\* a request for a managed language was answered from the cache while local
\* dictionaries are disabled
C13_Witness ==
    \E c \in Calls :
        /\ Sent(c)
        /\ route[c].body.source = "cache"
        /\ route[c].language = "ja"
        /\ cfg.disableLocalDicts

\* the en branch ran to its decision: both local dictionaries have replied
EnDecided(c) ==
    /\ route[c].language = "en"
    /\ "oxford_en_mac" \in route[c].consulted
    /\ route[c].pc \in {"google", "set", "sent"}

\* what the two dictionaries hold for the word, as their transforms return it
PrimaryResponse == EcdictTransformRecord(cfg.ecdict)
SupplementaryResponse == SqliteTransformRecord("oxford_en_mac", cfg.oxford)

\* the primary dictionary is open and has a usable row for the word
PrimaryHas ==
    /\ cfg.ecdict.available
    /\ ~cfg.ecdict.throws
    /\ cfg.ecdict.found
    /\ (cfg.ecdict.translation # "" \/ cfg.ecdict.definition # "")

\* the supplementary dictionary is open and has non-empty definitions
SupplementaryHas ==
    /\ cfg.oxford.available
    /\ ~cfg.oxford.throws
    /\ cfg.oxford.found
    /\ Trim(cfg.oxford.definition) # ""

\* C14: English merge - on a cache miss, a primary hit with definitions D1 and
\* a supplementary hit with non-empty definitions D2 give a response with
\* definitions = D2, the primary's word and translations, source
\* 'ecdict+oxford' and cached = false
C14_EnglishMerge ==
    \A c \in Calls :
        (Sent(c) /\ EnDecided(c) /\ PrimaryHas /\ SupplementaryHas) =>
            /\ route[c].status = 200
            /\ route[c].body.defs = SupplementaryResponse.defs
            /\ route[c].body.defs # ""
            /\ route[c].body.translations = PrimaryResponse.translations
            /\ route[c].body.word = PrimaryResponse.word
            /\ route[c].body.source = "ecdict+oxford"
            /\ route[c].body.cached = FALSE

\* a merged response was sent for a primary row that has definitions of its
\* own, different from the supplementary's
C14_Witness ==
    \E c \in Calls :
        /\ Sent(c) /\ EnDecided(c) /\ PrimaryHas /\ SupplementaryHas
        /\ PrimaryResponse.defs # ""
        /\ PrimaryResponse.defs # SupplementaryResponse.defs
        /\ route[c].body.translations # ""

\* C15: English no-merge - a primary hit with the supplementary missing,
\* unavailable or without definitions is answered with the primary's own
\* definitions D1 and source 'ecdict'
C15_EnglishNoMerge ==
    \A c \in Calls :
        (Sent(c) /\ EnDecided(c) /\ PrimaryHas /\ ~SupplementaryHas) =>
            /\ route[c].status = 200
            /\ route[c].body = PrimaryResponse
            /\ route[c].body.defs = cfg.ecdict.definition
            /\ route[c].body.source = "ecdict"
            /\ route[c].body.cached = FALSE

\* the primary answered alone although the supplementary has a row for the
\* word (with blank definitions)
C15_Witness ==
    \E c \in Calls :
        /\ Sent(c) /\ EnDecided(c) /\ PrimaryHas
        /\ cfg.oxford.available /\ cfg.oxford.found
        /\ ~SupplementaryHas
        /\ route[c].body.defs # ""

\* C16: supplementary-only answer - when the primary misses and the
\* supplementary hits, the supplementary's response is returned unchanged with
\* source 'oxford_en_mac'; the fallback is not queried and nothing is cached
C16_SupplementaryOnly ==
    \A c \in Calls :
        (EnDecided(c) /\ ~PrimaryHas /\ SupplementaryHas) =>
            /\ Sent(c)
            /\ route[c].status = 200
            /\ route[c].body = SupplementaryResponse
            /\ route[c].body.source = "oxford_en_mac"
            /\ route[c].body.cached = FALSE
            /\ "google" \notin route[c].consulted
            /\ ~route[c].wrote

\* the supplementary answered a request while the primary was unavailable
C16_Witness ==
    \E c \in Calls :
        /\ Sent(c) /\ EnDecided(c) /\ SupplementaryHas
        /\ ~cfg.ecdict.available
        /\ route[c].body.source = "oxford_en_mac"

\* an 'en' request answered after a cache miss
EnMissAnswered(c) == MissedCache(c) /\ route[c].language = "en"

\* both local dictionaries were consulted, and the fallback exactly when
\* neither of them has the word
BothThenFallback(c) ==
    /\ {"ecdict", "oxford_en_mac"} \subseteq route[c].consulted
    /\ ("google" \in route[c].consulted) <=> (~PrimaryHas /\ ~SupplementaryHas)

\* while the request is in flight the providers are consulted in the order
\* primary, supplementary, fallback
ConsultedInOrder(c) ==
    /\ ("oxford_en_mac" \in route[c].consulted) => ("ecdict" \in route[c].consulted)
    /\ ("google" \in route[c].consulted) =>
           /\ {"ecdict", "oxford_en_mac"} \subseteq route[c].consulted
           /\ ~route[c].ecdictHit.found
           /\ ~route[c].oxfordHit.found

\* C17 as stated: every 'en' request that misses the cache consults both the
\* primary and the supplementary local dictionary, and queries the fallback
\* if and only if both miss
C17_EnglishOrderAlways ==
    \A c \in Calls : EnMissAnswered(c) => BothThenFallback(c)

\* C17: English consultation order - unless local dictionaries are disabled,
\* every 'en' request that misses the cache consults both the primary and the
\* supplementary local dictionary (a hit or miss of one never skips the
\* other), primary first, and queries the fallback if and only if both miss
C17_EnglishOrder ==
    ~IsLocalDictDisabled =>
        \A c \in Calls :
            /\ EnMissAnswered(c) => BothThenFallback(c)
            /\ route[c].language = "en" => ConsultedInOrder(c)

\* with local dictionaries enabled the primary hit and the supplementary was
\* consulted all the same; the fallback was not
C17_Witness ==
    \E c \in Calls :
        /\ EnMissAnswered(c)
        /\ ~IsLocalDictDisabled
        /\ PrimaryHas
        /\ {"ecdict", "oxford_en_mac"} \subseteq route[c].consulted
        /\ "google" \notin route[c].consulted

\* a request for a managed language is past ensureProviderForLanguage and
\* queryProvider
ManagedDecided(c) ==
    /\ route[c].language # "en"
    /\ route[c].ensured
    /\ route[c].pc \in {"google", "set", "sent"}

\* the managed provider of the request's language
ManagedName(c) == GetProviderNameByLanguage(route[c].language)

\* the provider answers: its own response is sent and nothing else happens
AnsweredByManaged(c) ==
    /\ Sent(c)
    /\ route[c].status = 200
    /\ route[c].body = ManagedResponse(ManagedName(c))
    /\ route[c].body.source = ManagedName(c)
    /\ route[c].body.cached = FALSE
    /\ "google" \notin route[c].consulted
    /\ ~route[c].wrote

\* the provider resolved and has the word, or else the fallback is consulted
ManagedOrFallback ==
    \A c \in Calls :
        ManagedDecided(c) =>
            IF route[c].resolved /\ route[c].hasEntry
            THEN AnsweredByManaged(c)
            ELSE "google" \in route[c].consulted

\* queryProvider on the managed provider returns a hit in this step
ManagedHits(c) ==
    /\ route[c].pc = "lazy"
    /\ req[c].pc = "ensured"
    /\ req'[c].pc = "done"
    /\ req'[c].answer # "fallback"

\* touch(name): lastUsedAt is now and the release timer is armed afresh
TouchedOnHit ==
    \A c \in Calls :
        ManagedHits(c) =>
            /\ req'[c].answer = ManagedName(c)
            /\ loaded[ManagedName(c)]
            /\ idleFor'[ManagedName(c)] = 0
            /\ releaseTimer'[ManagedName(c)] = IdleReleaseMs

\* C18: managed-language answer - for a non-English language with a managed
\* provider, on a cache miss, if the provider loads or is already loaded and
\* has a valid entry, the response is the provider's (source = its tag,
\* cached = false), its idle timer is touched, the fallback is not queried
\* and nothing is cached; otherwise the request goes to the fallback
C18_ManagedAnswer == [](ManagedOrFallback) /\ [][TouchedOnHit]_vars

\* a managed provider that was loaded on demand answered a request
C18_Witness ==
    \E c \in Calls :
        /\ ManagedDecided(c)
        /\ route[c].resolved /\ route[c].hasEntry
        /\ AnsweredByManaged(c)
        /\ loadCount[ManagedName(c)] > 0

\* no local provider is queried and the lazy manager is left alone
NoLocalWork ==
    /\ \A c \in Calls :
          /\ route[c].consulted \subseteq {"google"}
          /\ ~route[c].ensured
          /\ req[c].pc = "idle"
    /\ \A n \in Names : loadCount[n] = 0 /\ ~loaded[n]

\* the request went to the fallback only, which decided the response
FallbackDecides(c) ==
    /\ route[c].consulted = {"google"}
    /\ route[c].status \in {200, 404}
    /\ route[c].status = 200 =>
          /\ route[c].wrote
          /\ route[c].body.source = "google"
          /\ route[c].body.cached = FALSE
    /\ route[c].status = 404 => ~route[c].wrote

\* C19: local dictionaries disabled - a request that misses the cache queries
\* no local provider and triggers no lazy load, whatever the language; only
\* the fallback is queried; its hit is written to the cache under the
\* fallback's source and returned with 200, its miss gives 404
C19_DisabledGoesToFallback ==
    cfg.disableLocalDicts =>
        /\ NoLocalWork
        /\ \A c \in Calls : MissedCache(c) => FallbackDecides(c)

\* with the flag set, a request for a managed language was answered by the
\* fallback and setCached was called, while both English dictionaries have
\* the word
C19_Witness ==
    /\ cfg.disableLocalDicts
    /\ PrimaryHas /\ SupplementaryHas
    /\ \E c \in Calls :
          /\ MissedCache(c)
          /\ route[c].language = "ja"
          /\ route[c].status = 200
          /\ route[c].wrote

\* setCached has returned to a request that got its answer from the fallback
\* with no entry under its key
FirstWritten(c) ==
    /\ route[c].pc = "set"
    /\ op[c].pc = "done"
    /\ route[c].seen = -1

\* the entry setCached created: the fallback's response, never hit
CreatedEntry(c) ==
    /\ op[c].ret = "true"
    /\ store[RouteKey(c)] # Absent
    /\ Parse(store[RouteKey(c)]).hit_count = 0
    /\ Parse(store[RouteKey(c)]).data = route[c].body

\* the request found the entry of the first request, not yet hit or expired
SecondAnswered(c) == Sent(c) /\ route[c].seen = 0

\* C20: fallback write-through - with a working cache and a word only the
\* fallback has, the first request returns source 'google', cached = false and
\* creates a cache entry with hit_count 0; the next request for the same
\* (word, language) before expiry returns source 'cache', cached = true,
\* hit_count 1, and does not query the fallback again
C20_WriteThrough ==
    \A c \in Calls :
        /\ FirstWritten(c) => CreatedEntry(c)
        /\ (Sent(c) /\ route[c].wrote /\ route[c].seen = -1) =>
              /\ route[c].status = 200
              /\ route[c].body.source = "google"
              /\ route[c].body.cached = FALSE
        /\ SecondAnswered(c) =>
              /\ route[c].status = 200
              /\ route[c].body.source = "cache"
              /\ route[c].body.cached = TRUE
              /\ route[c].body = StampHit(GoogleTransform("d1"))
              /\ route[c].hits = 1
              /\ route[c].consulted = {}
              /\ ~route[c].wrote

\* the first request was answered by the fallback and the second one, for the
\* same language, from the entry the first created
C20_Witness ==
    \E c, d \in Calls :
        /\ c # d
        /\ Sent(c) /\ route[c].wrote /\ route[c].seen = -1
        /\ route[c].body.source = "google"
        /\ SecondAnswered(d)
        /\ route[d].language = route[c].language
        /\ route[d].body.source = "cache"

\* the handler reaches "Not found anywhere" for the request in this step
SendsNotFound(c) ==
    /\ route[c].pc = "google"
    /\ route'[c].pc = "sent"
    /\ route'[c].status = 404

\* the request is the only one the server has received
OnlyRequest(c) == started = 1 /\ route[c].pc # "idle"

\* some provider gave the request a valid result
SomeProviderHit(c) ==
    \/ route[c].ecdictHit.found
    \/ route[c].oxfordHit.found
    \/ route[c].resolved /\ route[c].hasEntry
    \/ route[c].wrote

\* a 404 is the not-found body, sent without any setCached call after every
\* source of the request's chain, the fallback last, gave nothing
NotFoundAnswer ==
    \A c \in Calls :
        (Sent(c) /\ route[c].status = 404) =>
            /\ route[c].body = NotFoundBody
            /\ route[c].body.source # "cache"
            /\ "google" \in route[c].consulted
            /\ ~SomeProviderHit(c)
            /\ OnlyRequest(c) => store[RouteKey(c)] = Absent

\* a request that missed the cache and got no valid result from any provider
\* it consulted is answered 404, never 200
MissEverywhereIs404 ==
    \A c \in Calls :
        (MissedCache(c) /\ ~SomeProviderHit(c)) => route[c].status = 404

\* the step that sends the 404 writes nothing to the cache
NotFoundWritesNothing ==
    \A c \in Calls :
        SendsNotFound(c) =>
            UNCHANGED <<now, store, expireAt, lastWritten, origExpire, op>>

\* C21: not found - when the cache misses and no consulted provider, local or
\* fallback, produces a valid result, the request responds 404 with the
\* {title, message, resolution} body; the request writes no cache entry, so
\* the cache holds none for the (word, language) afterwards
C21_NotFound ==
    [](NotFoundAnswer /\ MissEverywhereIs404) /\ [][NotFoundWritesNothing]_vars

\* with both local dictionaries lacking the word and the fallback too, an 'en'
\* request got the 404 and the key is absent
C21_Witness ==
    \E c \in Calls :
        /\ Sent(c)
        /\ route[c].status = 404
        /\ route[c].language = "en"
        /\ route[c].consulted = {"ecdict", "oxford_en_mac", "google"}
        /\ store[RouteKey(c)] = Absent

\* the provider is registered and its isAvailable() is true, read off the
\* startup configuration (the fallback is registered at startup and always
\* available)
StartedAvailable(name) ==
    IF name = "ecdict" THEN cfg.ecdict.available
    ELSE IF name = "oxford_en_mac" THEN cfg.oxford.available
    ELSE name = "google"

\* provider.query was invoked only on registered, available providers that
\* list the request's language
DispatchGuard ==
    \A c \in Calls :
        /\ route[c].queried \subseteq route[c].consulted \cup Names
        /\ route[c].failed \subseteq route[c].queried
        /\ \A name \in route[c].queried \ Names :
              /\ StartedAvailable(name)
              /\ route[c].language \in SupportedLanguages(name)
        /\ \A name \in route[c].queried \cap Names :
              GetProviderNameByLanguage(route[c].language) = name

\* a managed provider's query is invoked in this step only if the provider is
\* in the registry and its database is open
ManagedDispatchGuard ==
    \A c \in Calls :
        (req[c].pc = "ensured" /\ req'[c].queried) =>
            /\ req[c].name \in Names
            /\ providers[req[c].name] # 0
            /\ providers[req[c].name] \in dbOpen[req[c].name]

\* a result that is not a valid found response
IsMiss(name, result) ==
    \/ result.thrown
    \/ ~result.found
    \/ result.response = NullResponse
    \/ ~IsValidResult(name, result.response)

\* queryProvider returns null for every such result, whatever its kind
MissesAreNull ==
    \A name \in {"ecdict", "oxford_en_mac", "google"} :
        \A language \in RouteLanguages \cup {OtherLanguage} :
            \A result \in AnyResults \cup {LocalQuery("ecdict"),
                                            LocalQuery("oxford_en_mac")} :
                IsMiss(name, result) => QueryProvider(name, language, result) = NoHit

\* however the local dictionaries came to miss, the chain goes on to the
\* fallback, and however the fallback came to miss, the request ends 404
ChainContinues ==
    \A c \in Calls :
        /\ (EnDecided(c) /\ ~PrimaryHas /\ ~SupplementaryHas) =>
              "google" \in route[c].consulted
        /\ (Sent(c) /\ "google" \in route[c].consulted /\ ~route[c].wrote) =>
              /\ route[c].status = 404
              /\ route[c].body = NotFoundBody

\* C22: dispatch guard - provider.query(word, language) is called only on a
\* provider that is registered, reports isAvailable() = true and lists the
\* language in supportedLanguages; a result with found = false, a null
\* response, or a response failing isValidResult is treated exactly like a
\* miss and the chain continues the same way
C22_DispatchGuard ==
    [](DispatchGuard /\ MissesAreNull /\ ChainContinues)
        /\ [][ManagedDispatchGuard]_vars

\* the fallback was consulted for a language it does not list and its query
\* method was not called; the request ended 404
C22_Witness ==
    \E c \in Calls :
        /\ Sent(c)
        /\ route[c].language = OtherLanguage
        /\ "google" \in route[c].consulted
        /\ "google" \notin route[c].queried
        /\ route[c].status = 404

\* a provider whose query rejected or reported an error gave no hit, and the
\* next source of the chain was consulted all the same
FailureIsMiss ==
    \A c \in Calls :
        /\ "ecdict" \in route[c].failed =>
              /\ ~route[c].ecdictHit.found
              /\ "oxford_en_mac" \in route[c].consulted
        /\ "oxford_en_mac" \in route[c].failed =>
              /\ ~route[c].oxfordHit.found
              /\ route[c].ecdictHit.found \/ "google" \in route[c].consulted
        /\ "google" \in route[c].failed => ~route[c].wrote

\* a request in which some provider failed ends 200 if another source has the
\* word and 404 otherwise
FailureEnds200Or404 ==
    \A c \in Calls :
        (Sent(c) /\ route[c].failed # {}) =>
            /\ route[c].status \in {200, 404}
            /\ route[c].status = 200 <=> SomeProviderHit(c)
            /\ route[c].status = 200 => route[c].body.defs \notin {NoData, ""}
                                            \/ route[c].body.translations # ""

\* C23: provider errors are absorbed - if a provider's query throws or returns
\* an error the request does not end in a 500; that provider counts as a miss
\* and the remaining sources of the chain are still consulted, so the request
\* ends 200 if a later source has the word and 404 otherwise
C23_ErrorsAbsorbed ==
    /\ \A c \in Calls : route[c].status # 500
    /\ FailureIsMiss
    /\ FailureEnds200Or404

\* the primary dictionary's query raised and the request was answered 200 by
\* the supplementary dictionary
C23_Witness ==
    \E c \in Calls :
        /\ Sent(c)
        /\ "ecdict" \in route[c].failed
        /\ cfg.ecdict.throws
        /\ route[c].status = 200
        /\ route[c].body.source = "oxford_en_mac"

\* ------------------------------------------------ C24: degraded cache backend
\* what the fallback can make of a request: a valid entry, or not found
GoogleAnswers ==
    {<<200, r.response>> :
        r \in {g \in GoogleResults : QueryProvider("google", "en", g).found}}
    \cup {<<404, NotFoundBody>>}

\* the responses the provider chain gives a request for the language when
\* getCached misses on an empty, working cache
ChainAnswers(language) ==
    LET ecdictHit == QueryProvider("ecdict", language, LocalQuery("ecdict"))
        oxfordHit == QueryProvider("oxford_en_mac", language,
                                   LocalQuery("oxford_en_mac"))
        branch == EnDecision(ecdictHit, oxfordHit)
    IN  IF cfg.disableLocalDicts THEN GoogleAnswers
        ELSE IF language # "en"
        THEN {<<200, ManagedResponse(n)>> : n \in Names} \cup GoogleAnswers
        ELSE IF branch = "primary"
        THEN {<<200, Merge(ecdictHit.response, oxfordHit)>>}
        ELSE IF branch = "supplementary" THEN {<<200, oxfordHit.response>>}
        ELSE GoogleAnswers

\* the cache function has returned after the backend was absent or not ready
\* ("status") or one of its commands failed ("call")
FaultyReturn(c) == op[c].pc = "done" /\ op[c].fault # "none"

\* getCached then returns null, setCached and deleteCached false; none raises
DegradesToMiss ==
    \A c \in Ops :
        /\ op[c].ret # "raise"
        /\ FaultyReturn(c) => op[c].ret \in {"null", "false"}

\* a failed read, write or delete leaves the stored entries as they were
FaultWritesNothing ==
    \A c \in Ops :
        (op[c].pc # "done" /\ op'[c].pc = "done" /\ op'[c].fault # "none")
            => store' = store

\* a cache call that met a fault returns to the request: after getCached the
\* handler goes on to the providers as on a miss, after setCached it sends
\* the fallback's response
FaultIsAMiss ==
    \A c \in Calls :
        (FaultyReturn(c) /\ route[c].pc \in {"cache", "set"}
            /\ route'[c].pc # route[c].pc)
            => IF route[c].pc = "cache"
               THEN route'[c].pc \in {"ecdict", "lazy", "google"}
               ELSE /\ Sent(c)'
                    /\ route'[c].status = 200
                    /\ route'[c].body = route[c].body

\* a request not answered from the cache gets one of the responses the
\* provider chain gives on an empty working cache, whatever the backend did
SameAsEmptyCache ==
    \A c \in Calls :
        Sent(c)
            => /\ route[c].status # 500
               /\ route[c].body.source # "cache"
                     => <<route[c].status, route[c].body>>
                            \in ChainAnswers(route[c].language)

PositionsOf(name) == {i \in DOMAIN GetAll : NameOf(GetAll[i]) = name}

\* C25: re-registration overwrites - once a second provider has been registered
\* under a name, get(name) is that provider, getAll() and getAvailable() hold
\* exactly one provider of the name, and the first appears in no snapshot
C25_ReregistrationOverwrites ==
    \A name \in RegistryNames :
        Get(name) # NoProvider
            => /\ \A i \in PositionsOf(name) : GetAll[i] = Get(name)
               /\ \A i \in DOMAIN GetAvailable :
                     NameOf(GetAvailable[i]) = name => GetAvailable[i] = Get(name)

\* priorityOrder is by non-increasing priority, equal priorities in the order
\* of their register calls
InPriorityOrder ==
    \A i, j \in DOMAIN registry.priorityOrder :
        i < j => LET a == registry.priorityOrder[i]
                     b == registry.priorityOrder[j]
                 IN  \/ a.priority > b.priority
                     \/ a.priority = b.priority /\ a.seq < b.seq

\* C26: registry ordering - getAll() lists the providers by non-increasing
\* priority, those of equal priority in registration order, and
\* getAvailable() is getAll() with the unavailable providers left out, in the
\* same order
C26_RegistryOrdering ==
    /\ InPriorityOrder
    /\ GetAvailable = SelectSeq(GetAll, IsAvailable)

\* three providers are registered, a later one above an earlier one, two at
\* equal priority, some available and some not
C26_Witness ==
    /\ Len(GetAll) = 3
    /\ \E i, j \in DOMAIN registry.priorityOrder :
          /\ i < j
          /\ registry.priorityOrder[i].seq > registry.priorityOrder[j].seq
    /\ \E i, j \in DOMAIN registry.priorityOrder :
          /\ i < j
          /\ registry.priorityOrder[i].priority = registry.priorityOrder[j].priority
    /\ Len(GetAvailable) \in 1..2

\* the step is an unregister(name) call
UnregisterCalled(name) ==
    /\ registry'.last.call = "unregister"
    /\ registry'.last.name = name

\* C27: registry unregister - unregister of a registered name calls the
\* provider's close(), returns true, and leaves get(name) undefined and no
\* provider of the name in getAll(); unregister of an unknown name returns
\* false, changes nothing and closes nothing
C27_RegistryUnregister ==
    [][\A name \in RegistryNames :
          UnregisterCalled(name)
              => IF Get(name) # NoProvider
                 THEN /\ registry'.last.ret = "true"
                      /\ registry'.last.closed = {Get(name)}
                      /\ Get(name)' = NoProvider
                      /\ PositionsOf(name)' = {}
                      /\ GetAll' = SelectSeq(GetAll, LAMBDA p : NameOf(p) # name)
                      /\ \A n \in RegistryNames \ {name} : Get(n)' = Get(n)
                 ELSE /\ registry'.last.ret = "false"
                      /\ registry'.last.closed = {}
                      /\ registry'.providers = registry.providers
                      /\ registry'.priorityOrder = registry.priorityOrder]_vars

\* a registered name has been unregistered while a provider of another name
\* stays registered
C27_Witness ==
    /\ registry.last.call = "unregister" /\ registry.last.ret = "true"
    /\ registry.last.closed # {}
    /\ Len(GetAll) >= 1

\* ------------------------------------------------- C28: manager teardown
\* what the manager holds: the maps, the states' fields, its registrations
ManagedState == <<closed, loaded, idleFor, releaseTimer, loadLocks, providers>>

\* the managed state a first configure() leaves
ConfiguredState ==
    <<FALSE, [n \in Names |-> FALSE], [n \in Names |-> IdleReleaseMs],
      [n \in Names |-> NoTimer], [n \in Names |-> NoLock], [n \in Names |-> 0]>>

\* after close(): no timeout armed, no managed provider registered or open,
\* no state loaded, no load in flight
TornDown ==
    closed => \A n \in Names :
                  /\ releaseTimer[n] = NoTimer
                  /\ providers[n] = 0
                  /\ dbOpen[n] = {}
                  /\ ~loaded[n]
                  /\ loadLocks[n] = NoLock

\* C28: manager teardown - after close(), and so at the start of every
\* configure(), no idle-release timer is armed, no managed provider is
\* registered, and the maps are empty; every configure() leaves the managed
\* state a first configure() leaves, so configuring twice is configuring once
C28_ManagerTeardown ==
    /\ [](TornDown)
    /\ [][(Close => closed') /\ (Configure => ManagedState' = ConfiguredState)]_vars

\* the manager has been closed after a provider it had loaded answered a
\* request and was unregistered
C28_Witness ==
    /\ closed
    /\ \E n \in Names :
          /\ unloadCount[n] >= 1
          /\ \E c \in Calls : req[c].pc = "done" /\ req[c].answer = n

\* -------------------------------------------------- C29: hit bookkeeping
\* getCached returns a hit in this step
HitReturns(c) ==
    /\ op[c].pc \in {"g_ttl", "g_setex"}
    /\ op'[c].pc = "done"
    /\ op'[c].ret = "hit"

\* the entry stored under the call's key
Stored(c) == Parse(store[OpKey(c)])

\* the hit leaves an entry that has the count it reports and the time of the
\* read, and is otherwise the entry that was stored
Counted(c) ==
    /\ store'[OpKey(c)] # Absent
    /\ Stored(c)'.hit_count = op'[c].entry.hit_count
    /\ Stored(c)'.last_hit_at = op'[c].entry.last_hit_at
    /\ store[OpKey(c)] # Absent
           => /\ Stored(c)'.hit_count = Stored(c).hit_count + 1
              /\ Stored(c)'.last_hit_at >= Stored(c).last_hit_at
              /\ Stored(c)'.data = Stored(c).data
              /\ Stored(c)'.created_at = Stored(c).created_at

\* setCached stores a fresh entry with hit_count 0
FreshEntryUncounted ==
    \A c \in Ops :
        (op[c].pc = "s_setex" /\ op'[c].ret = "true")
            => Stored(c)'.hit_count = 0

Answered(c) == Sent(c) /\ route[c].status = 200

\* the answer is the payload getCached returned: no provider was asked
ReadFromCache(c) == route[c].consulted = {} /\ ~route[c].ensured

\* source tags the providers put on their responses
ProviderTags == LocalTags \cup {"google"}

\* C30: cached/source consistency - every 200 response has cached = true if
\* and only if source = 'cache', which is the case exactly when the payload
\* was read from the cache; every response produced by a provider path
\* (primary, merged, supplementary, managed, fallback) has cached = false and
\* the provider's source tag
C30_CachedSourceConsistent ==
    \A c \in Calls :
        Answered(c)
            => /\ route[c].body.cached <=> route[c].body.source = "cache"
               /\ route[c].body.cached <=> ReadFromCache(c)
               /\ ~ReadFromCache(c)
                     => /\ ~route[c].body.cached
                        /\ route[c].body.source \in ProviderTags

\* one request has been answered from the cache and another by a provider
C30_Witness ==
    \E c, d \in Calls :
        /\ Answered(c) /\ ReadFromCache(c) /\ route[c].body.cached
        /\ Answered(d) /\ ~ReadFromCache(d)
        /\ route[d].body.source \in ProviderTags

\* ------------------------------------------------------- C31: cache keys
\* the words are equal after lower-casing (those of CacheWords all are)
SameWord(w1, w2) == ToLowerCase(w1) = ToLowerCase(w2)

\* a getCached or setCached call for the word starts in this step
CallStarts(c, word, language) ==
    \/ \E status \in RedisStatuses : GetStartAlone(c, word, language, status)
    \/ \E d \in Payloads : \E status \in RedisStatuses :
          SetStartAlone(c, word, language, d, status)

\* the cache holds at most one entry per language for the word
OneEntryPerWord ==
    \A k1, k2 \in Keys :
        (store[k1] # Absent /\ store[k2] # Absent /\ k1[2] = k2[2]) => k1 = k2

\* C31: makeCacheKey is deterministic and case-insensitive on the word - words
\* that are equal after lower-casing give the same key for a language, so a
\* call made with any casing of a word works on the key every other casing
\* gives, and the casings share one cache entry
C31_KeyCaseInsensitive ==
    /\ [](OneEntryPerWord)
    /\ [][\A c \in Ops : \A w1, w2 \in CacheWords : \A l \in CacheLanguages :
             (SameWord(w1, w2) /\ CallStarts(c, w1, l))
                 => op'[c].key = MakeCacheKey(w2, l)]_vars

\* a getCached call made with either casing has hit the entry a setCached
\* stored under the lower-cased key
C31_Witness ==
    \E c \in Ops :
        /\ op[c].pc = "done" /\ op[c].ret = "hit"
        /\ \A w \in CacheWords : \A l \in CacheLanguages :
              OpKey(c) = MakeCacheKey(w, l)
        /\ store[OpKey(c)] # Absent

\* ------------------------------------------- C32: in-flight marker lifetime
\* the call that started a load observes its result and returns in this step
OwnerReturns(c) == req[c].pc = "awaitLoad" /\ req'[c].pc = "ensured"

\* C32: in-flight marker lifetime - loadLocks has an entry for a name exactly
\* while the ensureProvider call that started a load of it has not yet
\* observed the result; when that call returns, the load having succeeded or
\* failed, the entry is gone, and a later call that cannot reuse the provider
\* starts a new load
C32_MarkerLifetime ==
    /\ [](\A n \in Names : loadLocks[n] # NoLock <=> Owners(n) # {})
    /\ [][\A c \in Calls :
             /\ OwnerReturns(c) => loadLocks'[req[c].name] = NoLock
             /\ (Starts(c) /\ Target(c) \in Names /\ ~CanReuse(Target(c))
                     /\ Owners(Target(c)) = {})
                    => /\ loadCount'[Target(c)] = loadCount[Target(c)] + 1
                       /\ req'[c].pc = "awaitLoad"]_vars

\* after a failed load was observed by its caller and its marker removed, a
\* later call has started a second load, which succeeded and is in flight
C32_Witness ==
    \E n \in Names : \E c \in Owners(n) :
        /\ failCount[n] = 1
        /\ loadCount[n] = 2
        /\ req[c].ok
        /\ loadLocks[n] = "ok"

\* ---------------------------------------------------------------------------
\* TTL selection of setCached
\* ---------------------------------------------------------------------------

\* the configuration names a default number of days, or leaves it unset
TtlConfigs ==
    {[disableLocalDicts |-> DefaultConfig.disableLocalDicts,
      ecdict |-> DefaultConfig.ecdict, oxford |-> DefaultConfig.oxford,
      defaultTTLDays |-> d] : d \in {NoDefault, DefaultTTLDays}}

TtlInit == LazyInit /\ CacheInit /\ RouteIdle /\ RegistryIdle /\ GoogleIdle /\ cfg \in TtlConfigs

\* setCached calls made one after the other while time passes, the control
\* key holding any value
TtlNext ==
    \/ \E c \in Ops : \E w \in CacheWords : \E l \in CacheLanguages :
          \E d \in Payloads : \E status \in RedisStatuses :
             SetStartAlone(c, w, l, d, status)
    \/ \E c \in Ops : \E ctl \in CtlValues \cup OtherCtlValues :
          \E f \in BOOLEAN : SetTtlResolved(c, ctl, f)
    \/ \E c \in Ops : \E fails \in BOOLEAN : SetWrite(c, fails)
    \/ \E c \in Ops : OpDone(c)
    \/ CacheTick

TtlSpec == TtlInit /\ [][TtlNext]_vars

\* the control key holds text that parses to an integer above zero
ControlKeyApplies(ctl, readFails) ==
    /\ ~readFails
    /\ ctl.kind \in {"int", "prefixed"}
    /\ ctl.n > 0

\* the static default in days, 30 where the configuration leaves it unset
StaticDefaultDays ==
    IF cfg.defaultTTLDays = NoDefault THEN 30 ELSE cfg.defaultTTLDays

Stripped(code) == CHOOSE base \in {SubSeq(code, 1, n) : n \in 0..Len(code)} :
    /\ ~IncludesDash(base)
    /\ Len(base) < Len(code)
    /\ code[Len(base) + 1] = "-"
    /\ \A i \in 1..Len(base) : base[i] = code[i]

\* the candidates fetched so far are the first candidates, in order
TriedInOrder ==
    /\ Len(google.tried) <= Len(google.candidates)
    /\ \A i \in 1..Len(google.tried) : google.tried[i][1] = google.candidates[i]

\* the requested code comes first, the code without its region suffix second
RequestedThenStripped ==
    google.pc # "idle" =>
       LET code == Normalized(google.language) IN
       /\ code # <<>> => google.candidates[1] = code
       /\ IncludesDash(code) => /\ Len(google.candidates) = 2
                                /\ google.candidates[2] = Stripped(code)

\* a result of the primary lookup comes from the first candidate whose fetch
\* answered 200 with a non-empty array, and no candidate after it was fetched
FirstAnswerReturned ==
    /\ \A i \in 1..Len(google.tried) :
          google.tried[i][2] = "entries" =>
             /\ i = Len(google.tried)
             /\ google.pc \in {"done", "idle"}
             /\ google.result =
                   [found |-> TRUE, from |-> "dictionaryapi.dev",
                    lang |-> google.candidates[i], error |-> ""]
    /\ (google.pc = "done" /\ google.result.from = "dictionaryapi.dev") =>
          /\ google.tried # <<>>
          /\ google.tried[Len(google.tried)][2] = "entries"

\* the legacy path runs only after every candidate was fetched without an
\* answer, and only with disableGoogleSearch false
LegacyOnlyAfterNothing ==
    /\ google.legacy =>
          /\ ~google.disableGoogleSearch
          /\ Len(google.tried) = Len(google.candidates)
          /\ \A i \in 1..Len(google.tried) : google.tried[i][2] # "entries"
    /\ google.result.from = "legacy" => google.legacy

\* neither the environment nor the configuration sets the switch: it is on
DisabledByDefault ==
    /\ (google.env = Undefined /\ google.config.type # "boolean")
          => google.disableGoogleSearch
    /\ (google.env = Undefined /\ google.config.type = "boolean")
          => google.disableGoogleSearch = (google.config.value = "true")

C35_TimerInvariant ==
    \A n \in Names :
       /\ timers[n] \in {0, 1}
       /\ timers[n] = 1 <=> releaseTimer[n] >= 0
       /\ loaded[n] => timers[n] = 1

\* a provider evicted once and loaded again, some time ago, with its one
\* timeout pending
C35_Witness ==
    \E n \in Names :
       /\ loaded[n] /\ unloadCount[n] = 1 /\ loadCount[n] = 2
       /\ timers[n] = 1
       /\ releaseTimer[n] < IdleReleaseMs

\* ---------------------------------------------------------------------------
\* Deletion under concurrent reads
\* ---------------------------------------------------------------------------

\* getCached, setCached and deleteCached calls overlapping in any way, over
\* a backend that is ready and answers every command
DeleteNext ==
    \/ \E c \in Ops : \E w \in CacheWords : \E l \in CacheLanguages :
          GetStart(c, w, l, "ready") /\ UNCHANGED routeVars
    \/ \E c \in Ops : GetReply(c, FALSE)
    \/ \E c \in Ops : TtlReplied(c, FALSE)
    \/ \E c \in Ops : GetRewrite(c, FALSE)
    \/ \E c \in Ops : \E w \in CacheWords : \E l \in CacheLanguages :
          \E d \in Payloads : SetStart(c, w, l, d, "ready") /\ UNCHANGED routeVars
    \/ \E c \in Ops : \E ctl \in CtlValues : SetTtlResolved(c, ctl, FALSE)
    \/ \E c \in Ops : SetWrite(c, FALSE)
    \/ \E c \in Ops : \E w \in CacheWords : \E l \in CacheLanguages :
          DelStart(c, w, l, "ready")
    \/ \E c \in Ops : DelReply(c, FALSE)
    \/ \E c \in Ops : OpDone(c)
    \/ CacheTick

DeleteSpec == Init /\ [][DeleteNext]_vars

\* a getCached call is between its redis.get and its return
ReadInFlight(k) ==
    \E c \in Ops : op[c].pc \in {"g_get", "g_ttl", "g_setex"} /\ OpKey(c) = k

\* C36: once deleteCached has completed for a key and every getCached call
\* that was in flight for it has finished, the key is absent from the cache
\* until the next setCached write for it.
C36_DeletionDurable ==
    \A k \in Keys :
       (lastWritten[k] = NoData /\ ~ReadInFlight(k)) => store[k] = Absent

\* ---------------------------------------------------------------------------
\* hit_count under concurrent reads
\* ---------------------------------------------------------------------------

\* setCached's write to key k lands in this step
SetWriteLands(k) == \E c \in Ops : SetWrite(c, FALSE) /\ OpKey(c) = k

\* getCached's rewrite by call c lands in this step
RewriteLands(c) == GetRewrite(c, FALSE)

HitCount(k) == Parse(store[k]).hit_count

\* C37 as stated: between two setCached writes of a key the stored hit_count
\* never decreases, however the getCached calls on that key interleave.
C37_HitCountMonotonic ==
    [][\A k \in Keys :
          (store[k] # Absent /\ store'[k] # Absent /\ ~SetWriteLands(k))
             => HitCount(k)' >= HitCount(k)]_vars

\* C37, amended: between two setCached writes of a key only a getCached
\* rewrite changes the stored hit_count, and it stores exactly the count its
\* call reports, one more than the count that call read: the stored count is
\* at least 1 after a rewrite, it grows by one when no other call has rewritten
\* the entry since this call read it, and it decreases only by a rewrite of a
\* call that read the entry before another call's rewrite.
C37_HitCountByRewrite ==
    [][/\ \A c \in Ops :
             RewriteLands(c) =>
                LET k == OpKey(c) IN
                /\ store'[k] # Absent
                /\ HitCount(k)' = op[c].entry.hit_count
                /\ HitCount(k)' >= 1
                /\ op'[c].ret = "hit"
                /\ op'[c].entry.hit_count = HitCount(k)'
                /\ (store[k] # Absent /\ op[c].entry.hit_count = HitCount(k) + 1)
                      => HitCount(k)' = HitCount(k) + 1
                /\ (store[k] # Absent /\ HitCount(k)' < HitCount(k))
                      => op[c].entry.hit_count <= HitCount(k)
       /\ \A k \in Keys :
             (/\ store[k] # Absent /\ store'[k] # Absent
              /\ ~SetWriteLands(k)
              /\ ~\E c \in Ops : RewriteLands(c) /\ OpKey(c) = k)
                => HitCount(k)' = HitCount(k)]_vars

\* one call has reported the second hit and its rewrite has landed; then the
\* rewrite of a call that had read the entry before the first hit landed: the
\* stored count is back at 1
C37_Witness ==
    \E c1, c2 \in Ops :
       /\ c1 # c2 /\ OpKey(c1) = OpKey(c2)
       /\ op[c1].pc = "done" /\ op[c1].ret = "hit" /\ op[c1].entry.hit_count = 2
       /\ op[c2].pc = "done" /\ op[c2].ret = "hit" /\ op[c2].entry.hit_count = 1
       /\ store[OpKey(c1)] # Absent
       /\ HitCount(OpKey(c1)) = 1

\* ---------------------------------------------------------------------------
\* Provider handles
\* ---------------------------------------------------------------------------

\* this step takes provider p out of reach of get(name)
Leaves(p) == Get(NameOf(p)) = p /\ Get(NameOf(p))' # p

\* C38 as stated: every provider instance placed in the registry has had
\* close() called on it by the time get(name) no longer reaches it, whether
\* it left by unregister, by closeAll or by a second register under its name
\* (an instance that is unavailable holds no open handle).
C38_NoLeakedHandles ==
    [][\A p \in Pool :
          Leaves(p) => (p \in registry'.last.closed \/ ~IsAvailable(p))]_vars

\* C38, amended: an instance that leaves by unregister (idle eviction and the
\* manager's close() go through it) or by closeAll has close() called on it
\* by that call; register under a name that is taken puts the new instance in
\* reach and closes nothing, so the instance it replaces is closed only if it
\* was closed before.
C38_ClosedOnRemoval ==
    [][\A p \in Pool :
          Leaves(p) =>
             IF registry'.last.call = "register"
             THEN /\ registry'.last.closed = {}
                  /\ Get(NameOf(p))' # NoProvider
                  /\ NameOf(Get(NameOf(p))') = NameOf(p)
             ELSE /\ registry'.last.call \in {"unregister", "closeAll"}
                  /\ p \in registry'.last.closed]_vars

\* two instances were registered under one name; unregister has closed the
\* second and emptied the registry, the first having been replaced unclosed
C38_Witness ==
    /\ registry.count = 2
    /\ registry.priorityOrder = <<>>
    /\ registry.last.call = "unregister"
    /\ registry.last.ret = "true"
    /\ \E p \in Pool : registry.last.closed = {p} /\ IsAvailable(p)
    /\ \A n \in RegistryNames : Get(n) = NoProvider

\* ---------------------------------------------------------------------------
\* Termination of requests
\* ---------------------------------------------------------------------------

\* whatever request c awaits (a cache round-trip, a provider query, a load or
\* an in-flight load marker) settles and the handler runs on
RouteStep(c) ==
    \/ RouteCacheReturn(c)
    \/ RouteEcdictReply(c)
    \/ RouteOxfordReply(c)
    \/ RouteLocalReturn(c)
    \/ \E result \in AnyResults : \E status \in RedisStatuses :
          RouteGoogleReply(c, result, status)
    \/ RouteSetReturn(c)
    \/ \E fails \in BOOLEAN : GetReply(c, fails)
    \/ \E fails \in BOOLEAN : TtlReplied(c, fails)
    \/ \E fails \in BOOLEAN : GetRewrite(c, fails)
    \/ \E ctl \in CtlValues : \E f \in BOOLEAN : SetTtlResolved(c, ctl, f)
    \/ \E fails \in BOOLEAN : SetWrite(c, fails)
    \/ \E o \in Outcomes : EnsureStart(c, o)
    \/ EnsureResume(c)
    \/ AwaitResume(c)
    \/ \E hit \in BOOLEAN : Query(c, hit)

\* configurations for the termination check: the primary dictionary has the
\* word, no local dictionary has it, the primary dictionary's query raises
LiveConfigs ==
    {DefaultConfig,
     [disableLocalDicts |-> FALSE, ecdict |-> NoRow, oxford |-> NoRow],
     [disableLocalDicts |-> FALSE, ecdict |-> Broken, oxford |-> NoRow]}

LiveInit == LazyInit /\ CacheInit /\ RouteIdle /\ RegistryIdle /\ GoogleIdle
            /\ cfg \in LiveConfigs

\* every awaited operation settles; timers and the clock run on their own
\* requests arrive, every request runs on as what it awaits settles, the
\* fallback rejecting or returning any QueryResult; timers fire and the clock
\* advances in between
LiveNext ==
    \/ \E c \in Calls : \E l \in RouteLanguages : \E status \in RedisStatuses :
          RouteStart(c, l, status)
    \/ \E c \in Calls : RouteStep(c)
    \/ \E c \in Calls : RouteFinish(c)
    \/ \E n \in Names : TimerFire(n)
    \/ LazyTick

RouteLive ==
    /\ LiveInit /\ [][LiveNext]_vars
    /\ \A c \in Calls : WF_vars(RouteStep(c))

\* C39: every lookup request ends with exactly one response, 200, 404 or 500,
\* under any interleaving with other requests, lazy loads, idle evictions and
\* cache failures, provided every awaited operation settles; no request waits
\* forever on an in-flight load marker.
C39_EveryRequestAnswered ==
    /\ [][\A c \in Calls :
             /\ (route[c].pc # "sent" /\ route'[c].pc = "sent")
                   => /\ route[c].pc # "idle"
                      /\ route[c].status = 0
                      /\ route'[c].status \in {200, 404, 500}
             /\ route[c].pc = "sent"
                   => (route'[c] = route[c] \/ route'[c] = IdleRoute)
             /\ route[c].pc # "sent" => route[c].status = 0]_vars
    /\ \A c \in Calls : (route[c].pc # "idle") ~> (route[c].pc = "sent")

\* two requests for the lazily loaded language ran together, one load served
\* both, and each has its response
C39_Witness ==
    \E c1, c2 \in Calls :
       /\ c1 # c2
       /\ route[c1].pc = "sent" /\ route[c2].pc = "sent"
       /\ route[c1].language = "ja" /\ route[c2].language = "ja"
       /\ route[c1].status = 200 /\ route[c2].status \in {200, 404}
       /\ loadCount["jaen_mac"] = 1


====
